---- MODULE Spec2Model ----
(***************************************************************************)
(* timezone-agent (src/index.ts): the request construction / response      *)
(* normalization pipeline of the entrypoints that call timeapi.io, and the *)
(* entrypoint registry.                                                    *)
(*                                                                         *)
(* A JavaScript string is a sequence of one-character strings, so that     *)
(* length, slice, trim, concatenation and parsing are computed on code     *)
(* units.  A JavaScript value is a record tagged by `kind`.                *)
(***************************************************************************)
EXTENDS Integers, Sequences, FiniteSets, TLC

(* ------------------------------ bounds -------------------------------- *)
\* longest response body enumerated character by character
MaxBodyLen == 2

(* ------------------------- program constants -------------------------- *)
\* truncateBodyPreview(body, limit = 500)
PreviewLimit == 500

(* -------------------------- string literals --------------------------- *)
TIME_API_BASE_URL == <<"h", "t", "t", "p", "s", ":", "/", "/", "t", "i", "m", "e", "a", "p", "i", ".", "i", "o">>
K_current_time == <<"c", "u", "r", "r", "e", "n", "t", "-", "t", "i", "m", "e">>
K_current_time_by_coordinate == <<"c", "u", "r", "r", "e", "n", "t", "-", "t", "i", "m", "e", "-", "b", "y", "-", "c", "o", "o", "r", "d", "i", "n", "a", "t", "e">>
K_current_time_by_ip == <<"c", "u", "r", "r", "e", "n", "t", "-", "t", "i", "m", "e", "-", "b", "y", "-", "i", "p">>
K_available_timezones == <<"a", "v", "a", "i", "l", "a", "b", "l", "e", "-", "t", "i", "m", "e", "z", "o", "n", "e", "s">>
K_timezone_info == <<"t", "i", "m", "e", "z", "o", "n", "e", "-", "i", "n", "f", "o">>
K_timezone_info_by_coordinate == <<"t", "i", "m", "e", "z", "o", "n", "e", "-", "i", "n", "f", "o", "-", "b", "y", "-", "c", "o", "o", "r", "d", "i", "n", "a", "t", "e">>
K_timezone_info_by_ip == <<"t", "i", "m", "e", "z", "o", "n", "e", "-", "i", "n", "f", "o", "-", "b", "y", "-", "i", "p">>
K_convert_timezone == <<"c", "o", "n", "v", "e", "r", "t", "-", "t", "i", "m", "e", "z", "o", "n", "e">>
K_translate_datetime == <<"t", "r", "a", "n", "s", "l", "a", "t", "e", "-", "d", "a", "t", "e", "t", "i", "m", "e">>
K_day_of_week == <<"d", "a", "y", "-", "o", "f", "-", "w", "e", "e", "k">>
K_day_of_year == <<"d", "a", "y", "-", "o", "f", "-", "y", "e", "a", "r">>
K_increment_current_time == <<"i", "n", "c", "r", "e", "m", "e", "n", "t", "-", "c", "u", "r", "r", "e", "n", "t", "-", "t", "i", "m", "e">>
K_decrement_current_time == <<"d", "e", "c", "r", "e", "m", "e", "n", "t", "-", "c", "u", "r", "r", "e", "n", "t", "-", "t", "i", "m", "e">>
K_increment_custom_time == <<"i", "n", "c", "r", "e", "m", "e", "n", "t", "-", "c", "u", "s", "t", "o", "m", "-", "t", "i", "m", "e">>
K_decrement_custom_time == <<"d", "e", "c", "r", "e", "m", "e", "n", "t", "-", "c", "u", "s", "t", "o", "m", "-", "t", "i", "m", "e">>
K_health_check == <<"h", "e", "a", "l", "t", "h", "-", "c", "h", "e", "c", "k">>
S_timeZone == <<"t", "i", "m", "e", "Z", "o", "n", "e">>
S_dateTime == <<"d", "a", "t", "e", "T", "i", "m", "e">>
S_date == <<"d", "a", "t", "e">>
S_time == <<"t", "i", "m", "e">>
S_components == <<"c", "o", "m", "p", "o", "n", "e", "n", "t", "s">>
S_year == <<"y", "e", "a", "r">>
S_month == <<"m", "o", "n", "t", "h">>
S_day == <<"d", "a", "y">>
S_hour == <<"h", "o", "u", "r">>
S_minute == <<"m", "i", "n", "u", "t", "e">>
S_seconds == <<"s", "e", "c", "o", "n", "d", "s">>
S_milliSeconds == <<"m", "i", "l", "l", "i", "S", "e", "c", "o", "n", "d", "s">>
S_dayOfWeek == <<"d", "a", "y", "O", "f", "W", "e", "e", "k">>
S_dstActive == <<"d", "s", "t", "A", "c", "t", "i", "v", "e">>
S_source == <<"s", "o", "u", "r", "c", "e">>
S_timeZones == <<"t", "i", "m", "e", "Z", "o", "n", "e", "s">>
S_count == <<"c", "o", "u", "n", "t">>
S_dayOfYear == <<"d", "a", "y", "O", "f", "Y", "e", "a", "r">>
S_data == <<"d", "a", "t", "a">>
S_ok == <<"o", "k">>
S_status == <<"s", "t", "a", "t", "u", "s">>
S_body == <<"b", "o", "d", "y">>
S_fromTimeZone == <<"f", "r", "o", "m", "T", "i", "m", "e", "Z", "o", "n", "e">>
S_toTimeZone == <<"t", "o", "T", "i", "m", "e", "Z", "o", "n", "e">>
S_dstAmbiguity == <<"d", "s", "t", "A", "m", "b", "i", "g", "u", "i", "t", "y">>
S_languageCode == <<"l", "a", "n", "g", "u", "a", "g", "e", "C", "o", "d", "e">>
S_timeSpan == <<"t", "i", "m", "e", "S", "p", "a", "n">>
S_latitude == <<"l", "a", "t", "i", "t", "u", "d", "e">>
S_longitude == <<"l", "o", "n", "g", "i", "t", "u", "d", "e">>
S_ipAddress == <<"i", "p", "A", "d", "d", "r", "e", "s", "s">>
H_accept == <<"a", "c", "c", "e", "p", "t">>
H_applicationJson == <<"a", "p", "p", "l", "i", "c", "a", "t", "i", "o", "n", "/", "j", "s", "o", "n">>
H_contentType == <<"C", "o", "n", "t", "e", "n", "t", "-", "T", "y", "p", "e">>
S_earlier == <<"e", "a", "r", "l", "i", "e", "r">>
S_later == <<"l", "a", "t", "e", "r">>
S_null == <<"n", "u", "l", "l">>
S_true == <<"t", "r", "u", "e">>
S_false == <<"f", "a", "l", "s", "e">>

(* --------------------------- string helpers --------------------------- *)
Min(S) == CHOOSE x \in S : \A y \in S : x <= y

\* String.prototype.slice(0, n)
Slice(s, n) == SubSeq(s, 1, IF n < Len(s) THEN n ELSE Len(s))

\* characters String.prototype.trim removes (those the bodies here can hold)
WhiteSpace == {" ", "\n", "\t", "\r"}

\* String.prototype.trim
Trim(s) ==
  IF \A j \in 1..Len(s) : s[j] \in WhiteSpace THEN <<>>
  ELSE SubSeq(s,
              CHOOSE a \in 1..Len(s) :
                s[a] \notin WhiteSpace /\ \A k \in 1..(a - 1) : s[k] \in WhiteSpace,
              CHOOSE b \in 1..Len(s) :
                s[b] \notin WhiteSpace /\ \A k \in (b + 1)..Len(s) : s[k] \in WhiteSpace)

Digits == <<"0", "1", "2", "3", "4", "5", "6", "7", "8", "9">>
DigitChars == {Digits[i] : i \in 1..10}
DigitVal(c) == (CHOOSE i \in 1..10 : Digits[i] = c) - 1

RECURSIVE NatToStr(_)
NatToStr(n) == IF n < 10 THEN <<Digits[n + 1]>>
               ELSE NatToStr(n \div 10) \o <<Digits[(n % 10) + 1]>>

\* String(n) for an integer n
NumToStr(n) == IF n < 0 THEN <<"-">> \o NatToStr(-n) ELSE NatToStr(n)

RECURSIVE StrToNat(_)
StrToNat(s) == IF Len(s) = 0 THEN 0
               ELSE 10 * StrToNat(SubSeq(s, 1, Len(s) - 1)) + DigitVal(s[Len(s)])

RECURSIVE Concat(_)
Concat(ss) == IF Len(ss) = 0 THEN <<>> ELSE Head(ss) \o Concat(Tail(ss))

\* the character c repeated n times
Repeat(c, n) == [i \in 1..n |-> c]

(* --------------------------- JavaScript values ------------------------ *)
Undefined == [kind |-> "undefined"]
Null == [kind |-> "null"]
Num(n) == [kind |-> "number", val |-> n]
Bool(b) == [kind |-> "boolean", val |-> b]
Str(s) == [kind |-> "string", val |-> s]
Arr(xs) == [kind |-> "array", val |-> xs]
\* an object is its own properties in insertion order: <<name, value>> pairs
Obj(ps) == [kind |-> "object", val |-> ps]

HasOwn(o, k) == \E i \in 1..Len(o.val) : o.val[i][1] = k
OwnValue(o, k) == o.val[CHOOSE i \in 1..Len(o.val) : o.val[i][1] = k][2]

\* o[k] = v on an object: an existing property keeps its place
SetProp(o, k, v) ==
  IF HasOwn(o, k)
  THEN Obj([i \in 1..Len(o.val) |->
             IF o.val[i][1] = k THEN <<k, v>> ELSE o.val[i]])
  ELSE Obj(Append(o.val, <<k, v>>))

\* an object literal { k1: v1, k2: v2, ... } from its pairs, in order
RECURSIVE AssignAll(_, _)
AssignAll(o, ps) ==
  IF Len(ps) = 0 THEN o
  ELSE AssignAll(SetProp(o, Head(ps)[1], Head(ps)[2]), Tail(ps))

\* the own enumerable properties that { ...v } copies
SpreadProps(v) ==
  CASE v.kind = "object" -> v.val
    [] v.kind = "array"  -> [i \in 1..Len(v.val) |-> <<NumToStr(i - 1), v.val[i]>>]
    [] v.kind = "string" -> [i \in 1..Len(v.val) |-> <<NumToStr(i - 1), Str(<<v.val[i]>>)>>]
    [] OTHER -> <<>>

\* whether reading a property of v throws a TypeError
ThrowsOnRead(v) == v.kind \in {"null", "undefined"}

\* v.name for a name no prototype defines (v is neither null nor undefined)
GetProp(v, k) ==
  IF v.kind = "object" /\ HasOwn(v, k) THEN OwnValue(v, k) ELSE Undefined

\* v.length (v is neither null nor undefined)
GetLength(v) ==
  CASE v.kind \in {"array", "string"} -> Num(Len(v.val))
    [] OTHER -> GetProp(v, <<"l", "e", "n", "g", "t", "h">>)

\* typeof v
TypeOf(v) ==
  CASE v.kind \in {"null", "object", "array"} -> "object"
    [] OTHER -> v.kind

\* whether v counts as true in a condition
Truthy(v) ==
  CASE v.kind \in {"undefined", "null"} -> FALSE
    [] v.kind = "boolean" -> v.val
    [] v.kind = "number" -> v.val # 0
    [] v.kind = "string" -> Len(v.val) > 0
    [] OTHER -> TRUE

\* k in v, for an object or array v and a name no prototype defines
HasProperty(v, k) == v.kind = "object" /\ HasOwn(v, k)

\* a ?? b
Coalesce(a, b) == IF a.kind \in {"null", "undefined"} THEN b ELSE a

(* ------------------------------ JSON.parse ---------------------------- *)
\* JSON.parse on the texts of this model: integers, strings without escapes,
\* null, true, false, arrays and objects, separated by JSON whitespace.

ParseFail(s, i) ==
  [ok |-> FALSE,
   reason |-> IF i > Len(s) THEN <<"U", "n", "e", "x", "p", "e", "c", "t", "e", "d", " ", "e", "n", "d">> ELSE <<"U", "n", "e", "x", "p", "e", "c", "t", "e", "d", " ", "t", "o", "k", "e", "n", " ">> \o <<s[i]>>]
ParseOk(v, i) == [ok |-> TRUE, val |-> v, pos |-> i]

\* the first position from i whose character is in cs, or 0
IndexOfAny(s, cs, i) ==
  IF \E j \in i..Len(s) : s[j] \in cs
  THEN CHOOSE j \in i..Len(s) : s[j] \in cs /\ \A k \in i..(j - 1) : s[k] \notin cs
  ELSE 0

\* the first position from i whose character is not in cs, or Len(s) + 1
EndOf(s, cs, i) ==
  IF \E j \in i..Len(s) : s[j] \notin cs
  THEN CHOOSE j \in i..Len(s) : s[j] \notin cs /\ \A k \in i..(j - 1) : s[k] \in cs
  ELSE Len(s) + 1

SkipWs(s, i) == EndOf(s, WhiteSpace, i)

\* s[i..] starts with the literal w
StartsWith(s, i, w) == i + Len(w) - 1 <= Len(s) /\ SubSeq(s, i, i + Len(w) - 1) = w

\* the first position from i where s departs from the literal w
LiteralMismatch(s, i, w) ==
  Min({i + j - 1 : j \in {j \in 1..Len(w) : i + j - 1 > Len(s) \/ s[i + j - 1] # w[j]}})

ParseLiteral(s, i, w, v) ==
  IF StartsWith(s, i, w) THEN ParseOk(v, i + Len(w))
  ELSE ParseFail(s, LiteralMismatch(s, i, w))

\* a string token whose opening quote is at i
ParseString(s, i) ==
  LET stop == IndexOfAny(s, {"\"", "\\", "\n", "\t", "\r"}, i + 1)
  IN  IF stop = 0 THEN ParseFail(s, Len(s) + 1)
      ELSE IF s[stop] # "\"" THEN ParseFail(s, stop)
      ELSE ParseOk(Str(SubSeq(s, i + 1, stop - 1)), stop + 1)

\* an integer token starting at i (s[i] is a digit or "-")
ParseNumber(s, i) ==
  LET d == IF s[i] = "-" THEN i + 1 ELSE i
      e == EndOf(s, DigitChars, d)
  IN  IF e = d THEN ParseFail(s, d)
      ELSE IF s[d] = "0" /\ e > d + 1 THEN ParseFail(s, d + 1)
      ELSE ParseOk(Num((IF d > i THEN -1 ELSE 1) * StrToNat(SubSeq(s, d, e - 1))), e)

RECURSIVE ParseValue(_, _), ParseElements(_, _, _), ParseMembers(_, _, _)
\* the value that starts at the first position from i0 after whitespace
ParseValue(s, i0) ==
  LET i == SkipWs(s, i0)
      j == SkipWs(s, i + 1)
  IN  IF i > Len(s) THEN ParseFail(s, i)
      ELSE CASE s[i] = "n" -> ParseLiteral(s, i, S_null, Null)
             [] s[i] = "t" -> ParseLiteral(s, i, S_true, Bool(TRUE))
             [] s[i] = "f" -> ParseLiteral(s, i, S_false, Bool(FALSE))
             [] s[i] = "\"" -> ParseString(s, i)
             [] s[i] \in DigitChars \cup {"-"} -> ParseNumber(s, i)
             [] s[i] = "[" ->
                  IF j <= Len(s) /\ s[j] = "]" THEN ParseOk(Arr(<<>>), j + 1)
                  ELSE ParseElements(s, j, <<>>)
             [] s[i] = "{" ->
                  IF j <= Len(s) /\ s[j] = "}" THEN ParseOk(Obj(<<>>), j + 1)
                  ELSE ParseMembers(s, j, Obj(<<>>))
             [] OTHER -> ParseFail(s, i)

\* what follows the parse r of an element: "," and more elements, or "]"
AfterElement(s, acc, r) ==
  LET j == SkipWs(s, r.pos)
  IN  IF ~r.ok THEN r
      ELSE IF j > Len(s) THEN ParseFail(s, j)
      ELSE IF s[j] = "]" THEN ParseOk(Arr(Append(acc, r.val)), j + 1)
      ELSE IF s[j] = "," THEN ParseElements(s, j + 1, Append(acc, r.val))
      ELSE ParseFail(s, j)

\* the elements of an array from i, after those in acc, up to its "]"
ParseElements(s, i, acc) == AfterElement(s, acc, ParseValue(s, i))

\* what follows the parse r of the value of the member named k: "," and more
\* members, or "}"
AfterMember(s, acc, k, r) ==
  LET j == SkipWs(s, r.pos)
  IN  IF ~r.ok THEN r
      ELSE IF j > Len(s) THEN ParseFail(s, j)
      ELSE IF s[j] = "}" THEN ParseOk(SetProp(acc, k, r.val), j + 1)
      ELSE IF s[j] = "," THEN ParseMembers(s, j + 1, SetProp(acc, k, r.val))
      ELSE ParseFail(s, j)

\* the members of an object from i0, after those in acc, up to its "}"
ParseMembers(s, i0, acc) ==
  LET i == SkipWs(s, i0)
      k == ParseString(s, i)
      c == SkipWs(s, k.pos)
  IN  IF i > Len(s) \/ s[i] # "\"" THEN ParseFail(s, i)
      ELSE IF ~k.ok THEN k
      ELSE IF c > Len(s) \/ s[c] # ":" THEN ParseFail(s, c)
      ELSE AfterMember(s, acc, k.val.val, ParseValue(s, c + 1))

\* a document must end after its value, whose parse is r
EndOfText(s, r) ==
  LET j == SkipWs(s, r.pos)
  IN  IF ~r.ok THEN r
      ELSE IF j <= Len(s) THEN ParseFail(s, j) ELSE r

\* JSON.parse(s): [ok |-> TRUE, val] or [ok |-> FALSE, reason] (a SyntaxError)
JSONParse(s) == EndOfText(s, ParseValue(s, 1))

(* ---------------------------- JSON.stringify -------------------------- *)
Quote(s) == <<"\"">> \o s \o <<"\"">>

RECURSIVE JSONStringify(_), StringifyMembers(_, _), StringifyElements(_)
\* JSON.stringify(v) for the values of this model (strings hold no escapes)
JSONStringify(v) ==
  CASE v.kind = "null" -> S_null
    [] v.kind = "boolean" -> IF v.val THEN S_true ELSE S_false
    [] v.kind = "number" -> NumToStr(v.val)
    [] v.kind = "string" -> Quote(v.val)
    [] v.kind = "array" -> <<"[">> \o StringifyElements(v.val) \o <<"]">>
    [] v.kind = "object" -> <<"{">> \o StringifyMembers(v.val, TRUE) \o <<"}">>

StringifyElements(xs) ==
  IF Len(xs) = 0 THEN <<>>
  ELSE (IF Head(xs).kind = "undefined" THEN S_null ELSE JSONStringify(Head(xs)))
       \o (IF Len(xs) > 1 THEN <<",">> ELSE <<>>) \o StringifyElements(Tail(xs))

\* members with an undefined value are left out
StringifyMembers(ps, first) ==
  IF Len(ps) = 0 THEN <<>>
  ELSE IF Head(ps)[2].kind = "undefined" THEN StringifyMembers(Tail(ps), first)
  ELSE (IF first THEN <<>> ELSE <<",">>)
       \o Quote(Head(ps)[1]) \o <<":">> \o JSONStringify(Head(ps)[2])
       \o StringifyMembers(Tail(ps), FALSE)

(* --------------------------------- URL -------------------------------- *)
\* the first index of character c in s from position i, or 0
IndexOf(s, c, i) == IndexOfAny(s, {c}, i)

\* s split at every occurrence of character c
RECURSIVE SplitOn(_, _)
SplitOn(s, c) ==
  LET k == IndexOf(s, c, 1)
  IN  IF k = 0 THEN <<s>>
      ELSE <<SubSeq(s, 1, k - 1)>> \o SplitOn(SubSeq(s, k + 1, Len(s)), c)

\* URLSearchParams.set(k, v): the first pair named k takes v and later ones go;
\* a new name is appended
\* params with the pair at position first given the value v and every later
\* pair named k removed
RECURSIVE WithoutName(_, _)
WithoutName(params, k) ==
  IF Len(params) = 0 THEN <<>>
  ELSE (IF Head(params)[1] = k THEN <<>> ELSE <<Head(params)>>) \o WithoutName(Tail(params), k)

ReplaceFirst(params, k, v, first) ==
  SubSeq(params, 1, first - 1) \o <<<<k, v>>>>
  \o WithoutName(SubSeq(params, first + 1, Len(params)), k)

SearchParamsSet(params, k, v) ==
  IF \A i \in 1..Len(params) : params[i][1] # k THEN Append(params, <<k, v>>)
  ELSE ReplaceFirst(params, k, v,
                    CHOOSE i \in 1..Len(params) :
                      params[i][1] = k /\ \A j \in 1..(i - 1) : params[j][1] # k)

\* the <<name, value>> of one "name=value" part of a query string
ParsePair(part, e) ==
  IF e = 0 THEN <<part, <<>>>>
  ELSE <<SubSeq(part, 1, e - 1), SubSeq(part, e + 1, Len(part))>>

\* the parts of a split that are not empty
RECURSIVE NonEmpty(_)
NonEmpty(parts) ==
  IF Len(parts) = 0 THEN <<>>
  ELSE (IF Len(Head(parts)) > 0 THEN <<Head(parts)>> ELSE <<>>) \o NonEmpty(Tail(parts))

\* the pairs of a query string "a=1&b=2" (no escapes)
ParseQuery(q) ==
  LET parts == NonEmpty(SplitOn(q, "&"))
  IN  [i \in 1..Len(parts) |-> ParsePair(parts[i], IndexOf(parts[i], "=", 1))]

\* new URL(path, base) for a path that starts with "/"
NewURL(path, base) ==
  LET q == IndexOf(path, "?", 1)
  IN  [origin |-> base,
       pathname |-> IF q = 0 THEN path ELSE SubSeq(path, 1, q - 1),
       searchParams |-> IF q = 0 THEN <<>> ELSE ParseQuery(SubSeq(path, q + 1, Len(path)))]

\* application/x-www-form-urlencoded byte serialization of one character
FormEncodeChar(c) ==
  CASE c = " " -> <<"+">>
    [] c = "/" -> <<"%", "2", "F">>
    [] c = ":" -> <<"%", "3", "A">>
    [] c = "+" -> <<"%", "2", "B">>
    [] c = "=" -> <<"%", "3", "D">>
    [] c = "&" -> <<"%", "2", "6">>
    [] c = "?" -> <<"%", "3", "F">>
    [] c = "," -> <<"%", "2", "C">>
    [] OTHER -> <<c>>

FormEncode(s) == Concat([i \in 1..Len(s) |-> FormEncodeChar(s[i])])

RECURSIVE SerializeParams(_)
SerializeParams(params) ==
  IF Len(params) = 0 THEN <<>>
  ELSE FormEncode(Head(params)[1]) \o <<"=">> \o FormEncode(Head(params)[2])
       \o (IF Len(params) > 1 THEN <<"&">> ELSE <<>>) \o SerializeParams(Tail(params))

\* url.toString()
UrlToString(url) ==
  url.origin \o url.pathname
  \o (IF Len(url.searchParams) = 0 THEN <<>> ELSE <<"?">> \o SerializeParams(url.searchParams))

\* String(v)
ToJsString(v) ==
  CASE v.kind = "string" -> v.val
    [] v.kind = "number" -> NumToStr(v.val)
    [] v.kind = "boolean" -> IF v.val THEN S_true ELSE S_false
    [] v.kind = "null" -> S_null
    [] v.kind = "undefined" -> <<"u", "n", "d", "e", "f", "i", "n", "e", "d">>

\* SetQueryEntries without the test for undefined: every entry is set
RECURSIVE SetQueryEntries_UndefinedSet(_, _)
SetQueryEntries_UndefinedSet(params, entries) ==
  IF Len(entries) = 0 THEN params
  ELSE SetQueryEntries_UndefinedSet(
         SearchParamsSet(params, Head(entries)[1], ToJsString(Head(entries)[2])),
         Tail(entries))

\* the for loop of buildTimeApiUrl over Object.entries(query)
RECURSIVE SetQueryEntries(_, _)
SetQueryEntries(params, entries) ==
  IF Len(entries) = 0 THEN params
  ELSE SetQueryEntries(
         IF Head(entries)[2].kind = "undefined" THEN params
         ELSE SearchParamsSet(params, Head(entries)[1], ToJsString(Head(entries)[2])),
         Tail(entries))

\* buildTimeApiUrl(path, query): query is Undefined or an object of primitives
buildTimeApiUrl(path, query) ==
  LET url == NewURL(path, TIME_API_BASE_URL)
  IN  IF query.kind = "undefined" THEN url
      ELSE [url EXCEPT !.searchParams = SetQueryEntries(@, query.val)]

(* ------------------------------- headers ------------------------------ *)
Upper == <<"A", "B", "C", "D", "E", "F", "G", "H", "I", "J", "K", "L", "M",
           "N", "O", "P", "Q", "R", "S", "T", "U", "V", "W", "X", "Y", "Z">>
Lower == <<"a", "b", "c", "d", "e", "f", "g", "h", "i", "j", "k", "l", "m",
           "n", "o", "p", "q", "r", "s", "t", "u", "v", "w", "x", "y", "z">>
LowerChar(c) ==
  IF \E i \in 1..26 : Upper[i] = c THEN Lower[CHOOSE i \in 1..26 : Upper[i] = c] ELSE c
ToLowerCase(s) == [i \in 1..Len(s) |-> LowerChar(s[i])]

\* Headers.set(name, value) on a header list of <<lower-case name, value>>
HeadersSet(h, name, value) ==
  LET n == ToLowerCase(name)
  IN  IF \E i \in 1..Len(h) : h[i][1] = n
      THEN [i \in 1..Len(h) |-> IF h[i][1] = n THEN <<n, value>> ELSE h[i]]
      ELSE Append(h, <<n, value>>)

\* Headers.get(name), or <<>> standing for null
HeadersGet(h, name) ==
  LET n == ToLowerCase(name)
  IN  IF \E i \in 1..Len(h) : h[i][1] = n
      THEN h[CHOOSE i \in 1..Len(h) : h[i][1] = n][2]
      ELSE <<>>

\* Array.prototype.join(sep) on an array of strings
RECURSIVE Join(_, _)
Join(xs, sep) ==
  IF Len(xs) = 0 THEN <<>>
  ELSE IF Len(xs) = 1 THEN Head(xs).val
  ELSE Head(xs).val \o sep \o Join(Tail(xs), sep)

\* base.set(key, value) for every <<key, value>> of pairs, in order
RECURSIVE SetPairs(_, _)
SetPairs(base, pairs) ==
  IF Len(pairs) = 0 THEN base
  ELSE SetPairs(HeadersSet(base, Head(pairs)[1], Head(pairs)[2]), Tail(pairs))

\* SetRecordEntry skipping undefined only: a null value is set as "null"
SetRecordEntry_NullSet(base, key, rawValue) ==
  IF rawValue.kind = "undefined" THEN base
  ELSE IF rawValue.kind = "array"
       THEN HeadersSet(base, key, Join(rawValue.val, <<",", " ">>))
       ELSE HeadersSet(base, key, ToJsString(rawValue))

\* one iteration of the loop of mergeHeaders over a HeaderRecord
SetRecordEntry(base, key, rawValue) ==
  IF rawValue.kind \in {"undefined", "null"} THEN base
  ELSE IF rawValue.kind = "array"
       THEN HeadersSet(base, key, Join(rawValue.val, <<",", " ">>))
       ELSE HeadersSet(base, key, ToJsString(rawValue))

\* the loop of mergeHeaders over Object.entries(extra) of a HeaderRecord
RECURSIVE SetRecordEntries(_, _)
SetRecordEntries(base, entries) ==
  IF Len(entries) = 0 THEN base
  ELSE SetRecordEntries(SetRecordEntry(base, Head(entries)[1], Head(entries)[2]),
                        Tail(entries))

\* mergeHeaders(base, extra): extra is Undefined, a Headers (kind "headers",
\* val a header list), an array of pairs (kind "array") or a record (kind
\* "object", val its entries)
mergeHeaders(base, extra) ==
  CASE extra.kind = "undefined" -> base
    [] extra.kind = "headers" -> SetPairs(base, extra.val)
    [] extra.kind = "array" -> SetPairs(base, extra.val)
    [] extra.kind = "object" -> SetRecordEntries(base, extra.val)

(* ------------------------------ transport ----------------------------- *)
\* a TimeApiRequestInit
NoInit == [method |-> Undefined, headers |-> Undefined, body |-> Undefined]
JsonPost(body) ==
  [method |-> Str(<<"P", "O", "S", "T">>),
   headers |-> Obj(<<<<H_contentType, Str(H_applicationJson)>>>>),
   body |-> Str(JSONStringify(body))]

\* what performTimeApiRequest hands to fetch: fetch(url, { ...init, headers })
FetchArguments(url, init) ==
  [url |-> UrlToString(url),
   method |-> IF init.method.kind = "undefined" THEN <<"G", "E", "T">> ELSE init.method.val,
   headers |-> mergeHeaders(<<<<H_accept, H_applicationJson>>>>, init.headers),
   body |-> init.body]

\* error instanceof Error ? error.message : String(error)
ReasonOf(error) == IF error.kind = "error" THEN error.message ELSE ToJsString(error)

Throw(failure, message) == [kind |-> "throw", failure |-> failure, message |-> message]
Return(output) == [kind |-> "return", output |-> output]

\* the catch block of performTimeApiRequest
NetworkFailure(label, error) ==
  Throw("NetworkFailure", <<"[">> \o label \o <<"]", " ", "n", "e", "t", "w", "o", "r", "k", " ", "r", "e", "q", "u", "e", "s", "t", " ", "f", "a", "i", "l", "e", "d", ":", " ">> \o ReasonOf(error))

\* Response.ok
ResponseOk(status) == status >= 200 /\ status <= 299

\* U+2026, one code unit
Ellipsis == "U+2026"

\* truncateBodyPreview with < for <=: a body of exactly the limit is cut
truncateBodyPreview_OffByOne(body) ==
  IF Len(body) < PreviewLimit THEN body
  ELSE Slice(body, PreviewLimit) \o <<Ellipsis>>

\* truncateBodyPreview(body) with the default limit
truncateBodyPreview(body) ==
  IF Len(body) <= PreviewLimit THEN body
  ELSE Slice(body, PreviewLimit) \o <<Ellipsis>>

\* the !response.ok branch of requestTimeApiJson and of the health-check handler
HttpStatusFailure(label, status, bodyText) ==
  Throw("HttpStatusFailure",
        <<"[">> \o label \o <<"]", " ", "t", "i", "m", "e", "a", "p", "i", ".", "i", "o", " ", "r", "e", "s", "p", "o", "n", "d", "e", "d", " ", "w", "i", "t", "h", " ">> \o NumToStr(status) \o <<":", " ">>
        \o (IF Len(bodyText) > 0 THEN truncateBodyPreview(bodyText) ELSE <<"<", "e", "m", "p", "t", "y", " ", "r", "e", "s", "p", "o", "n", "s", "e", " ", "b", "o", "d", "y", ">">>))

\* the try/catch around JSON.parse(trimmedBody), r being what JSON.parse did
Decoded(label, bodyText, r) ==
  IF r.ok THEN [kind |-> "value", val |-> r.val]
  ELSE Throw("JsonParseFailure",
             <<"[">> \o label \o <<"]", " ", "f", "a", "i", "l", "e", "d", " ", "t", "o", " ", "p", "a", "r", "s", "e", " ", "J", "S", "O", "N", ":", " ">> \o r.reason
             \o <<".", " ", "R", "e", "s", "p", "o", "n", "s", "e", " ", "b", "o", "d", "y", ":", " ">> \o truncateBodyPreview(bodyText))

\* requestTimeApiJson decoding before it looks at the status: a body that
\* decodes is returned whatever the status
requestTimeApiJson_DecodeFirst(status, bodyText, label) ==
  IF Len(Trim(bodyText)) > 0 /\ JSONParse(Trim(bodyText)).ok
  THEN [outcome |-> [kind |-> "value", val |-> JSONParse(Trim(bodyText)).val], parsed |-> 1]
  ELSE IF ~ResponseOk(status)
  THEN [outcome |-> HttpStatusFailure(label, status, bodyText), parsed |-> 1]
  ELSE IF Len(Trim(bodyText)) = 0
  THEN [outcome |-> Throw("EmptyBodyFailure", <<"[">> \o label \o <<"]", " ", "e", "x", "p", "e", "c", "t", "e", "d", " ", "J", "S", "O", "N", " ", "b", "o", "d", "y", " ", "b", "u", "t", " ", "r", "e", "c", "e", "i", "v", "e", "d", " ", "a", "n", " ", "e", "m", "p", "t", "y", " ", "r", "e", "s", "p", "o", "n", "s", "e">>),
        parsed |-> 0]
  ELSE [outcome |-> Decoded(label, bodyText, JSONParse(Trim(bodyText))), parsed |-> 1]

\* requestTimeApiJson previewing the trimmed body in a parse failure
requestTimeApiJson_PreviewTrimmed(status, bodyText, label) ==
  IF ~ResponseOk(status)
  THEN [outcome |-> HttpStatusFailure(label, status, bodyText), parsed |-> 0]
  ELSE IF Len(Trim(bodyText)) = 0
  THEN [outcome |-> Throw("EmptyBodyFailure", <<"[">> \o label \o <<"]", " ", "e", "x", "p", "e", "c", "t", "e", "d", " ", "J", "S", "O", "N", " ", "b", "o", "d", "y", " ", "b", "u", "t", " ", "r", "e", "c", "e", "i", "v", "e", "d", " ", "a", "n", " ", "e", "m", "p", "t", "y", " ", "r", "e", "s", "p", "o", "n", "s", "e">>),
        parsed |-> 0]
  ELSE [outcome |-> Decoded(label, Trim(bodyText), JSONParse(Trim(bodyText))), parsed |-> 1]

\* requestTimeApiJson after performTimeApiRequest has returned: a thrown failure
\* or [kind |-> "value", val |-> the decoded payload]; parsed counts the runs
\* of JSON.parse
requestTimeApiJson(status, bodyText, label) ==
  IF ~ResponseOk(status)
  THEN [outcome |-> HttpStatusFailure(label, status, bodyText), parsed |-> 0]
  ELSE IF Len(Trim(bodyText)) = 0
  THEN [outcome |-> Throw("EmptyBodyFailure", <<"[">> \o label \o <<"]", " ", "e", "x", "p", "e", "c", "t", "e", "d", " ", "J", "S", "O", "N", " ", "b", "o", "d", "y", " ", "b", "u", "t", " ", "r", "e", "c", "e", "i", "v", "e", "d", " ", "a", "n", " ", "e", "m", "p", "t", "y", " ", "r", "e", "s", "p", "o", "n", "s", "e">>),
        parsed |-> 0]
  ELSE [outcome |-> Decoded(label, bodyText, JSONParse(Trim(bodyText))), parsed |-> 1]

(* --------------------------- output normalizers ----------------------- *)
\* reading a property of null or undefined
TypeErrorThrown == Throw("TypeError", <<"C", "a", "n", "n", "o", "t", " ", "r", "e", "a", "d", " ", "p", "r", "o", "p", "e", "r", "t", "i", "e", "s", " ", "o", "f", " ", "n", "u", "l", "l">>)

\* createTimeResponse without the fallback: timeZone: payload.timeZone ?? null
createTimeResponse_NoFallback(payload, url, fallbackTimeZone) ==
  IF ThrowsOnRead(payload) THEN TypeErrorThrown
  ELSE AssignAll(Obj(<<>>), <<
         <<S_timeZone, Coalesce(GetProp(payload, S_timeZone), Null)>>,
         <<S_dateTime, GetProp(payload, S_dateTime)>>,
         <<S_date, GetProp(payload, S_date)>>,
         <<S_time, GetProp(payload, S_time)>>,
         <<S_components, AssignAll(Obj(<<>>), <<
             <<S_year, GetProp(payload, S_year)>>,
             <<S_month, GetProp(payload, S_month)>>,
             <<S_day, GetProp(payload, S_day)>>,
             <<S_hour, GetProp(payload, S_hour)>>,
             <<S_minute, GetProp(payload, S_minute)>>,
             <<S_seconds, GetProp(payload, S_seconds)>>,
             <<S_milliSeconds, GetProp(payload, S_milliSeconds)>> >>)>>,
         <<S_dayOfWeek, GetProp(payload, S_dayOfWeek)>>,
         <<S_dstActive, GetProp(payload, S_dstActive)>>,
         <<S_source, Str(UrlToString(url))>> >>)

\* createTimeResponse(payload, url, fallbackTimeZone): the object, or the
\* TypeError of reading payload.timeZone
createTimeResponse(payload, url, fallbackTimeZone) ==
  IF ThrowsOnRead(payload) THEN TypeErrorThrown
  ELSE AssignAll(Obj(<<>>), <<
         <<S_timeZone, Coalesce(Coalesce(GetProp(payload, S_timeZone), fallbackTimeZone), Null)>>,
         <<S_dateTime, GetProp(payload, S_dateTime)>>,
         <<S_date, GetProp(payload, S_date)>>,
         <<S_time, GetProp(payload, S_time)>>,
         <<S_components, AssignAll(Obj(<<>>), <<
             <<S_year, GetProp(payload, S_year)>>,
             <<S_month, GetProp(payload, S_month)>>,
             <<S_day, GetProp(payload, S_day)>>,
             <<S_hour, GetProp(payload, S_hour)>>,
             <<S_minute, GetProp(payload, S_minute)>>,
             <<S_seconds, GetProp(payload, S_seconds)>>,
             <<S_milliSeconds, GetProp(payload, S_milliSeconds)>> >>)>>,
         <<S_dayOfWeek, GetProp(payload, S_dayOfWeek)>>,
         <<S_dstActive, GetProp(payload, S_dstActive)>>,
         <<S_source, Str(UrlToString(url))>> >>)

\* return { output: createTimeResponse(payload, url, fallback) }
TimeOutput(payload, url, fallbackTimeZone) ==
  LET o == createTimeResponse(payload, url, fallbackTimeZone)
  IN  IF o.kind = "throw" THEN o ELSE Return(o)

\* { timeZones: payload, count: payload.length, source: url.toString() }
ListOutput(payload, url) ==
  IF ThrowsOnRead(payload) THEN TypeErrorThrown
  ELSE Return(AssignAll(Obj(<<>>), <<
         <<S_timeZones, payload>>,
         <<S_count, GetLength(payload)>>,
         <<S_source, Str(UrlToString(url))>> >>))

\* PassThroughOutput with the spread last: { source: url.toString(), ...payload }
PassThroughOutput_SourceFirst(payload, url) ==
  Return(AssignAll(Obj(<<>>),
                   <<<<S_source, Str(UrlToString(url))>>>> \o SpreadProps(payload)))

\* { ...payload, source: url.toString() }
PassThroughOutput(payload, url) ==
  Return(AssignAll(Obj(<<>>),
                   SpreadProps(payload) \o <<<<S_source, Str(UrlToString(url))>>>>))

\* DayOfYearOutput without the typeof check of the dayOfYear field
DayOfYearOutput_AnyField(payload, url) ==
  IF payload.kind = "number"
  THEN Return(AssignAll(Obj(<<>>), <<<<S_dayOfYear, payload>>,
                                     <<S_source, Str(UrlToString(url))>> >>))
  ELSE IF Truthy(payload) /\ TypeOf(payload) = "object" /\ HasProperty(payload, S_dayOfYear)
  THEN Return(AssignAll(Obj(<<>>), <<<<S_dayOfYear, GetProp(payload, S_dayOfYear)>>,
                                     <<S_source, Str(UrlToString(url))>> >>))
  ELSE Return(AssignAll(Obj(<<>>), <<<<S_data, payload>>,
                                     <<S_source, Str(UrlToString(url))>> >>))

\* the three returns of the day-of-year handler
DayOfYearOutput(payload, url) ==
  IF payload.kind = "number"
  THEN Return(AssignAll(Obj(<<>>), <<<<S_dayOfYear, payload>>,
                                     <<S_source, Str(UrlToString(url))>> >>))
  ELSE IF /\ Truthy(payload)
          /\ TypeOf(payload) = "object"
          /\ HasProperty(payload, S_dayOfYear)
          /\ TypeOf(GetProp(payload, S_dayOfYear)) = "number"
  THEN Return(AssignAll(Obj(<<>>), <<<<S_dayOfYear, GetProp(payload, S_dayOfYear)>>,
                                     <<S_source, Str(UrlToString(url))>> >>))
  ELSE Return(AssignAll(Obj(<<>>), <<<<S_data, payload>>,
                                     <<S_source, Str(UrlToString(url))>> >>))

\* the health-check handler after performTimeApiRequest has returned
HealthCheckResult(status, bodyText, url) ==
  IF ~ResponseOk(status) THEN HttpStatusFailure(K_health_check, status, bodyText)
  ELSE Return(AssignAll(Obj(<<>>), <<
         <<S_ok, Bool(TRUE)>>,
         <<S_status, Num(status)>>,
         <<S_body, IF Len(Trim(bodyText)) > 0 THEN Str(Trim(bodyText)) ELSE Null>>,
         <<S_source, Str(UrlToString(url))>> >>))

(* ------------------------------- handlers ----------------------------- *)
\* encodeURIComponent of one character
UriEncodeChar(c) ==
  CASE c = " " -> <<"%", "2", "0">>
    [] c = "/" -> <<"%", "2", "F">>
    [] c = ":" -> <<"%", "3", "A">>
    [] c = "+" -> <<"%", "2", "B">>
    [] c = "=" -> <<"%", "3", "D">>
    [] c = "&" -> <<"%", "2", "6">>
    [] c = "?" -> <<"%", "3", "F">>
    [] c = "," -> <<"%", "2", "C">>
    [] OTHER -> <<c>>
encodeURIComponent(s) == Concat([i \in 1..Len(s) |-> UriEncodeChar(s[i])])

\* DstAmbiguitySpread testing for absence only: "" is sent as an empty string
DstAmbiguitySpread_EmptySent(dstAmbiguity) ==
  IF dstAmbiguity.kind # "undefined"
  THEN <<<<S_dstAmbiguity, Str(Trim(dstAmbiguity.val))>>>>
  ELSE <<>>

\* ...(dstAmbiguity ? { dstAmbiguity: dstAmbiguity.trim() } : undefined)
DstAmbiguitySpread(dstAmbiguity) ==
  IF Truthy(dstAmbiguity)
  THEN <<<<S_dstAmbiguity, Str(Trim(dstAmbiguity.val))>>>>
  ELSE <<>>

\* what each handler passes to requestTimeApiJson / performTimeApiRequest:
\* the URL it built, the init and the label
Request(url, init, label) == [url |-> url, init |-> init, label |-> label]

CurrentTimeRequest(input) ==
  Request(buildTimeApiUrl(<<"/", "a", "p", "i", "/", "t", "i", "m", "e", "/", "c", "u", "r", "r", "e", "n", "t", "/", "z", "o", "n", "e">>, Obj(<<<<S_timeZone, input.timeZone>>>>)),
          NoInit, K_current_time)
CurrentTimeByCoordinateRequest(input) ==
  Request(buildTimeApiUrl(<<"/", "a", "p", "i", "/", "t", "i", "m", "e", "/", "c", "u", "r", "r", "e", "n", "t", "/", "c", "o", "o", "r", "d", "i", "n", "a", "t", "e">>,
                          Obj(<<<<S_latitude, input.latitude>>, <<S_longitude, input.longitude>>>>)),
          NoInit, K_current_time_by_coordinate)
CurrentTimeByIpRequest(input) ==
  Request(buildTimeApiUrl(<<"/", "a", "p", "i", "/", "t", "i", "m", "e", "/", "c", "u", "r", "r", "e", "n", "t", "/", "i", "p">>, Obj(<<<<S_ipAddress, input.ipAddress>>>>)),
          NoInit, K_current_time_by_ip)
AvailableTimezonesRequest(input) ==
  Request(buildTimeApiUrl(<<"/", "a", "p", "i", "/", "t", "i", "m", "e", "z", "o", "n", "e", "/", "a", "v", "a", "i", "l", "a", "b", "l", "e", "t", "i", "m", "e", "z", "o", "n", "e", "s">>, Undefined),
          NoInit, K_available_timezones)
TimezoneInfoRequest(input) ==
  Request(buildTimeApiUrl(<<"/", "a", "p", "i", "/", "t", "i", "m", "e", "z", "o", "n", "e", "/", "z", "o", "n", "e">>, Obj(<<<<S_timeZone, input.timeZone>>>>)),
          NoInit, K_timezone_info)
TimezoneInfoByCoordinateRequest(input) ==
  Request(buildTimeApiUrl(<<"/", "a", "p", "i", "/", "t", "i", "m", "e", "z", "o", "n", "e", "/", "c", "o", "o", "r", "d", "i", "n", "a", "t", "e">>,
                          Obj(<<<<S_latitude, input.latitude>>, <<S_longitude, input.longitude>>>>)),
          NoInit, K_timezone_info_by_coordinate)
TimezoneInfoByIpRequest(input) ==
  Request(buildTimeApiUrl(<<"/", "a", "p", "i", "/", "t", "i", "m", "e", "z", "o", "n", "e", "/", "i", "p">>, Obj(<<<<S_ipAddress, input.ipAddress>>>>)),
          NoInit, K_timezone_info_by_ip)
ConvertTimezoneRequest(input) ==
  Request(buildTimeApiUrl(<<"/", "a", "p", "i", "/", "c", "o", "n", "v", "e", "r", "s", "i", "o", "n", "/", "c", "o", "n", "v", "e", "r", "t", "t", "i", "m", "e", "z", "o", "n", "e">>, Undefined),
          JsonPost(Obj(<<<<S_fromTimeZone, input.fromTimeZone>>,
                         <<S_dateTime, input.dateTime>>,
                         <<S_toTimeZone, input.toTimeZone>>>>
                       \o DstAmbiguitySpread(input.dstAmbiguity))),
          K_convert_timezone)
TranslateDatetimeRequest(input) ==
  Request(buildTimeApiUrl(<<"/", "a", "p", "i", "/", "c", "o", "n", "v", "e", "r", "s", "i", "o", "n", "/", "t", "r", "a", "n", "s", "l", "a", "t", "e">>, Undefined),
          JsonPost(Obj(<<<<S_dateTime, input.dateTime>>,
                         <<S_languageCode, input.languageCode>>>>)),
          K_translate_datetime)
DayOfWeekRequest(input) ==
  Request(buildTimeApiUrl(<<"/", "a", "p", "i", "/", "c", "o", "n", "v", "e", "r", "s", "i", "o", "n", "/", "d", "a", "y", "o", "f", "t", "h", "e", "w", "e", "e", "k", "/">> \o encodeURIComponent(input.date.val),
                          Undefined),
          NoInit, K_day_of_week)
DayOfYearRequest(input) ==
  Request(buildTimeApiUrl(<<"/", "a", "p", "i", "/", "c", "o", "n", "v", "e", "r", "s", "i", "o", "n", "/", "d", "a", "y", "o", "f", "t", "h", "e", "y", "e", "a", "r", "/">> \o encodeURIComponent(input.date.val),
                          Undefined),
          NoInit, K_day_of_year)
IncrementCurrentTimeRequest(input) ==
  Request(buildTimeApiUrl(<<"/", "a", "p", "i", "/", "c", "a", "l", "c", "u", "l", "a", "t", "i", "o", "n", "/", "c", "u", "r", "r", "e", "n", "t", "/", "i", "n", "c", "r", "e", "m", "e", "n", "t">>, Undefined),
          JsonPost(Obj(<<<<S_timeZone, input.timeZone>>, <<S_timeSpan, input.timeSpan>>>>)),
          K_increment_current_time)
DecrementCurrentTimeRequest(input) ==
  Request(buildTimeApiUrl(<<"/", "a", "p", "i", "/", "c", "a", "l", "c", "u", "l", "a", "t", "i", "o", "n", "/", "c", "u", "r", "r", "e", "n", "t", "/", "d", "e", "c", "r", "e", "m", "e", "n", "t">>, Undefined),
          JsonPost(Obj(<<<<S_timeZone, input.timeZone>>, <<S_timeSpan, input.timeSpan>>>>)),
          K_decrement_current_time)
IncrementCustomTimeRequest(input) ==
  Request(buildTimeApiUrl(<<"/", "a", "p", "i", "/", "c", "a", "l", "c", "u", "l", "a", "t", "i", "o", "n", "/", "c", "u", "s", "t", "o", "m", "/", "i", "n", "c", "r", "e", "m", "e", "n", "t">>, Undefined),
          JsonPost(Obj(<<<<S_timeZone, input.timeZone>>,
                         <<S_dateTime, input.dateTime>>,
                         <<S_timeSpan, input.timeSpan>>>>
                       \o DstAmbiguitySpread(input.dstAmbiguity))),
          K_increment_custom_time)
DecrementCustomTimeRequest(input) ==
  Request(buildTimeApiUrl(<<"/", "a", "p", "i", "/", "c", "a", "l", "c", "u", "l", "a", "t", "i", "o", "n", "/", "c", "u", "s", "t", "o", "m", "/", "d", "e", "c", "r", "e", "m", "e", "n", "t">>, Undefined),
          JsonPost(Obj(<<<<S_timeZone, input.timeZone>>,
                         <<S_dateTime, input.dateTime>>,
                         <<S_timeSpan, input.timeSpan>>>>
                       \o DstAmbiguitySpread(input.dstAmbiguity))),
          K_decrement_custom_time)
HealthCheckRequest(input) ==
  Request(buildTimeApiUrl(<<"/", "a", "p", "i", "/", "h", "e", "a", "l", "t", "h", "/", "c", "h", "e", "c", "k">>, Undefined),
          [NoInit EXCEPT !.headers = Obj(<<<<H_accept, Str(<<"t", "e", "x", "t", "/", "p", "l", "a", "i", "n">>)>>>>)],
          K_health_check)

\* the definitions passed to registerEntrypoint, in source order
EntrypointDefinitions ==
  << [key |-> K_current_time], [key |-> K_current_time_by_coordinate],
     [key |-> K_current_time_by_ip], [key |-> K_available_timezones],
     [key |-> K_timezone_info], [key |-> K_timezone_info_by_coordinate],
     [key |-> K_timezone_info_by_ip], [key |-> K_convert_timezone],
     [key |-> K_translate_datetime], [key |-> K_day_of_week],
     [key |-> K_day_of_year], [key |-> K_increment_current_time],
     [key |-> K_decrement_current_time], [key |-> K_increment_custom_time],
     [key |-> K_decrement_custom_time], [key |-> K_health_check] >>

\* the handler's code up to its network call
HandlerRequest(key, input) ==
  CASE key = K_current_time -> CurrentTimeRequest(input)
    [] key = K_current_time_by_coordinate -> CurrentTimeByCoordinateRequest(input)
    [] key = K_current_time_by_ip -> CurrentTimeByIpRequest(input)
    [] key = K_available_timezones -> AvailableTimezonesRequest(input)
    [] key = K_timezone_info -> TimezoneInfoRequest(input)
    [] key = K_timezone_info_by_coordinate -> TimezoneInfoByCoordinateRequest(input)
    [] key = K_timezone_info_by_ip -> TimezoneInfoByIpRequest(input)
    [] key = K_convert_timezone -> ConvertTimezoneRequest(input)
    [] key = K_translate_datetime -> TranslateDatetimeRequest(input)
    [] key = K_day_of_week -> DayOfWeekRequest(input)
    [] key = K_day_of_year -> DayOfYearRequest(input)
    [] key = K_increment_current_time -> IncrementCurrentTimeRequest(input)
    [] key = K_decrement_current_time -> DecrementCurrentTimeRequest(input)
    [] key = K_increment_custom_time -> IncrementCustomTimeRequest(input)
    [] key = K_decrement_custom_time -> DecrementCustomTimeRequest(input)
    [] key = K_health_check -> HealthCheckRequest(input)

\* the handler's code after requestTimeApiJson has returned payload
HandlerOutput(key, input, url, payload) ==
  CASE key = K_current_time -> TimeOutput(payload, url, input.timeZone)
    [] key \in {K_current_time_by_coordinate, K_current_time_by_ip} ->
         TimeOutput(payload, url, Undefined)
    [] key = K_available_timezones -> ListOutput(payload, url)
    [] key = K_day_of_year -> DayOfYearOutput(payload, url)
    [] OTHER -> PassThroughOutput(payload, url)

\* a handler after its await of requestTimeApiJson, which threw or returned
AfterRequest(key, input, url, r) ==
  [result |-> IF r.outcome.kind = "throw" THEN r.outcome
              ELSE HandlerOutput(key, input, url, r.outcome.val),
   parsed |-> r.parsed]

\* the handler's code from the moment response.text() has resolved: its
\* result and the number of runs of JSON.parse
HandlerResult(key, input, request, status, bodyText) ==
  IF key = K_health_check
  THEN [result |-> HealthCheckResult(status, bodyText, request.url), parsed |-> 0]
  ELSE AfterRequest(key, input, request.url,
                    requestTimeApiJson(status, bodyText, request.label))

(* ------------------------- inputs and environment --------------------- *)
\* inputs that pass each entrypoint's input schema
TimeZones == {Str(<<"U", "T", "C">>), Str(<<"E", "u", "r", "o", "p", "e", "/", "O", "s", "l", "o">>)}
Coordinates == {[latitude |-> Num(-90), longitude |-> Num(0)],
                [latitude |-> Num(40), longitude |-> Num(180)]}
IpAddresses == {Str(<<"2", "3", "7", ".", "7", "1", ".", "2", "3", "2", ".", "2", "0", "3">>)}
DateTimes == {Str(<<"2", "0", "2", "4", "-", "0", "1", "-", "0", "7", " ", "1", "0", ":", "0", "0", ":", "0", "5">>)}
Dates == {Str(<<"2", "0", "2", "4", "-", "0", "1", "-", "0", "7">>)}
TimeSpans == {Str(<<"1", ":", "0", "2", ":", "0", "3", ":", "0", "4">>)}
LanguageCodes == {Str(<<"e", "n">>)}
\* dstAmbiguitySchema: "earlier", "later", "" or absent
DstAmbiguities == {Undefined, Str(<<>>), Str(S_earlier), Str(S_later)}

ValidInputs(key) ==
  CASE key \in {K_current_time, K_timezone_info} -> [timeZone : TimeZones]
    [] key \in {K_current_time_by_coordinate, K_timezone_info_by_coordinate} -> Coordinates
    [] key \in {K_current_time_by_ip, K_timezone_info_by_ip} -> [ipAddress : IpAddresses]
    [] key \in {K_available_timezones, K_health_check} -> {[none |-> Undefined]}
    [] key = K_convert_timezone ->
         [fromTimeZone : {Str(<<"U", "T", "C">>)}, dateTime : DateTimes,
          toTimeZone : {Str(<<"E", "u", "r", "o", "p", "e", "/", "O", "s", "l", "o">>)}, dstAmbiguity : DstAmbiguities]
    [] key = K_translate_datetime -> [dateTime : DateTimes, languageCode : LanguageCodes]
    [] key \in {K_day_of_week, K_day_of_year} -> [date : Dates]
    [] key \in {K_increment_current_time, K_decrement_current_time} ->
         [timeZone : {Str(<<"U", "T", "C">>)}, timeSpan : TimeSpans]
    [] key \in {K_increment_custom_time, K_decrement_custom_time} ->
         [timeZone : {Str(<<"U", "T", "C">>)}, dateTime : DateTimes, timeSpan : TimeSpans,
          dstAmbiguity : DstAmbiguities]

\* what a rejected fetch or a rejected response.text() rejects with: an Error
\* with a message, or a value that is no Error
Err(message) == [kind |-> "error", message |-> message]
Rejections == {Err(<<"c", "o", "n", "n", "e", "c", "t", " ", "E", "C", "O", "N", "N", "R", "E", "F", "U", "S", "E", "D">>), Str(<<"a", "b", "o", "r", "t", "e", "d">>)}

\* status codes of the responses, on both sides of the ok range
Statuses == {200, 299, 300, 404, 500}

\* characters of the bodies enumerated up to MaxBodyLen
BodyAlphabet == {" ", "7", "x", "\"", "[", "]"}
ShortBodies == UNION {[1..n -> BodyAlphabet] : n \in 0..MaxBodyLen}

\* bodies around the preview limit
LongBodies ==
  { Repeat("x", PreviewLimit - 1), Repeat("x", PreviewLimit), Repeat("x", PreviewLimit + 1),
    Repeat(" ", PreviewLimit + 1),
    <<" ">> \o Repeat("x", PreviewLimit) \o <<"\n">>,
    Repeat(" ", PreviewLimit) \o <<"7">>,
    <<"{">> \o Repeat(" ", PreviewLimit) \o <<"}">> }

\* JSON documents the upstream may answer with
DocumentBodies ==
  { <<"n", "u", "l", "l">>, <<"t", "r", "u", "e">>, <<"f", "a", "l", "s", "e">>, <<"0">>, <<"-", "1", "2">>, <<"\"", "S", "u", "n", "d", "a", "y", "\"">>, <<" ", "7", " ">> \o <<"\n">>,
    <<"[", "\"", "U", "T", "C", "\"", ",", "\"", "E", "u", "r", "o", "p", "e", "/", "O", "s", "l", "o", "\"", "]">>,
    <<"{", "\"", "d", "a", "y", "O", "f", "Y", "e", "a", "r", "\"", ":", "7", "}">>, <<"{", "\"", "d", "a", "y", "O", "f", "Y", "e", "a", "r", "\"", ":", "\"", "7", "\"", "}">>, <<"{", "\"", "d", "a", "y", "O", "f", "Y", "e", "a", "r", "\"", ":", "n", "u", "l", "l", "}">>, <<"{", "\"", "d", "a", "y", "o", "f", "y", "e", "a", "r", "\"", ":", "7", "}">>,
    <<"{", "\"", "d", "a", "y", "O", "f", "Y", "e", "a", "r", "\"", ":", "7", ",", "\"", "s", "o", "u", "r", "c", "e", "\"", ":", "\"", "u", "p", "s", "t", "r", "e", "a", "m", "\"", "}">>,
    <<"{", "\"", "s", "o", "u", "r", "c", "e", "\"", ":", "\"", "u", "p", "s", "t", "r", "e", "a", "m", "\"", ",", "\"", "t", "i", "m", "e", "Z", "o", "n", "e", "\"", ":", "\"", "U", "T", "C", "\"", ",", "\"", "l", "e", "n", "g", "t", "h", "\"", ":", "3", "}">>,
    <<"{", "\"", "d", "a", "y", "O", "f", "W", "e", "e", "k", "\"", ":", "\"", "S", "u", "n", "d", "a", "y", "\"", "}">>,
    <<"{", "\"", "y", "e", "a", "r", "\"", ":", "2", "0", "2", "4", ",", "\"", "m", "o", "n", "t", "h", "\"", ":", "1", ",", "\"", "d", "a", "y", "\"", ":", "7", ",", "\"", "h", "o", "u", "r", "\"", ":", "1", "0", ",", "\"", "m", "i", "n", "u", "t", "e", "\"", ":", "0", ",", "\"", "s", "e", "c", "o", "n", "d", "s", "\"", ":", "5", ",", "\"", "m", "i", "l", "l", "i", "S", "e", "c", "o", "n", "d", "s", "\"", ":", "0", ",", "\"", "d", "a", "t", "e", "T", "i", "m", "e", "\"", ":", "\"", "2", "0", "2", "4", "-", "0", "1", "-", "0", "7", "T", "1", "0", ":", "0", "0", ":", "0", "5", "\"", ",", "\"", "d", "a", "t", "e", "\"", ":", "\"", "0", "1", "/", "0", "7", "/", "2", "0", "2", "4", "\"", ",", "\"", "t", "i", "m", "e", "\"", ":", "\"", "1", "0", ":", "0", "0", "\"", ",", "\"", "t", "i", "m", "e", "Z", "o", "n", "e", "\"", ":", "\"", "A", "s", "i", "a", "/", "T", "o", "k", "y", "o", "\"", ",", "\"", "d", "a", "y", "O", "f", "W", "e", "e", "k", "\"", ":", "\"", "S", "u", "n", "d", "a", "y", "\"", ",", "\"", "d", "s", "t", "A", "c", "t", "i", "v", "e", "\"", ":", "f", "a", "l", "s", "e", "}">>,
    <<"{", "\"", "y", "e", "a", "r", "\"", ":", "2", "0", "2", "4", ",", "\"", "m", "o", "n", "t", "h", "\"", ":", "1", ",", "\"", "d", "a", "y", "\"", ":", "7", ",", "\"", "h", "o", "u", "r", "\"", ":", "1", "0", ",", "\"", "m", "i", "n", "u", "t", "e", "\"", ":", "0", ",", "\"", "s", "e", "c", "o", "n", "d", "s", "\"", ":", "5", ",", "\"", "m", "i", "l", "l", "i", "S", "e", "c", "o", "n", "d", "s", "\"", ":", "0", ",", "\"", "d", "a", "t", "e", "T", "i", "m", "e", "\"", ":", "\"", "2", "0", "2", "4", "-", "0", "1", "-", "0", "7", "T", "1", "0", ":", "0", "0", ":", "0", "5", "\"", ",", "\"", "d", "a", "t", "e", "\"", ":", "n", "u", "l", "l", ",", "\"", "t", "i", "m", "e", "\"", ":", "n", "u", "l", "l", ",", "\"", "t", "i", "m", "e", "Z", "o", "n", "e", "\"", ":", "n", "u", "l", "l", ",", "\"", "d", "a", "y", "O", "f", "W", "e", "e", "k", "\"", ":", "n", "u", "l", "l", ",", "\"", "d", "s", "t", "A", "c", "t", "i", "v", "e", "\"", ":", "t", "r", "u", "e", "}">>,
    <<"{", "\"", "y", "e", "a", "r", "\"", ":", "2", "0", "2", "4", ",", "\"", "m", "o", "n", "t", "h", "\"", ":", "1", ",", "\"", "d", "a", "y", "\"", ":", "7", ",", "\"", "h", "o", "u", "r", "\"", ":", "1", "0", ",", "\"", "m", "i", "n", "u", "t", "e", "\"", ":", "0", ",", "\"", "s", "e", "c", "o", "n", "d", "s", "\"", ":", "5", ",", "\"", "m", "i", "l", "l", "i", "S", "e", "c", "o", "n", "d", "s", "\"", ":", "0", ",", "\"", "d", "a", "t", "e", "T", "i", "m", "e", "\"", ":", "\"", "2", "0", "2", "4", "-", "0", "1", "-", "0", "7", "T", "1", "0", ":", "0", "0", ":", "0", "5", "\"", ",", "\"", "d", "s", "t", "A", "c", "t", "i", "v", "e", "\"", ":", "f", "a", "l", "s", "e", "}">>,
    <<"{", "\"", "t", "i", "m", "e", "Z", "o", "n", "e", "\"", ":", "\"", "U", "T", "C", "\"", ",", "\"", "c", "a", "l", "c", "u", "l", "a", "t", "i", "o", "n", "R", "e", "s", "u", "l", "t", "\"", ":", "{", "\"", "y", "e", "a", "r", "\"", ":", "2", "0", "2", "4", ",", "\"", "d", "s", "t", "A", "c", "t", "i", "v", "e", "\"", ":", "f", "a", "l", "s", "e", "}", "}">>,
    <<"n", "o", "t", " ", "j", "s", "o", "n">>, <<"{", "\"", "d", "a", "y", "O", "f", "Y", "e", "a", "r", "\"", ":", "7", "}", " ">> }

Bodies == ShortBodies \cup LongBodies \cup DocumentBodies

(* -------------------------------- state ------------------------------- *)
VARIABLES
  entrypointKeys,   \* const entrypointKeys: string[]
  appEntrypoints,   \* the keys addEntrypoint was called with, in order
  registering,      \* index of the next registerEntrypoint call of module evaluation
  pc,               \* per invocation: "idle", "fetch", "text", "done"
  invocation,       \* per invocation: the key and the validated input
  request,          \* per invocation: the url, init and label the handler built
  sent,             \* per invocation: the arguments of its last fetch call
  response,         \* per invocation: the status and, once read, the body text
  result,           \* per invocation: what the handler returned or threw
  calls,            \* per invocation: number of fetch calls
  reads,            \* per invocation: number of response.text() calls
  parsed,           \* per invocation: number of JSON.parse runs
  keysAtDelegation, \* entrypointKeys as it stood when addEntrypoint was last called
  call,             \* the function call under study: the function and its arguments
  heap,             \* the Headers objects of that call, by reference
  returned          \* what that call returned

vars == <<entrypointKeys, appEntrypoints, registering, pc, invocation, request, sent,
          response, result, calls, reads, parsed, keysAtDelegation, call, heap, returned>>

None == [kind |-> "none"]
\* no response obtained (yet)
NoResponse == [status |-> None, bodyText |-> None]
Procs == DOMAIN pc

\* the state after the declarations of the module, before the first
\* registerEntrypoint call, with the invocations of P not yet made
InitFor(P) ==
  /\ entrypointKeys = <<>>
  /\ appEntrypoints = <<>>
  /\ registering = 1
  /\ pc = [p \in P |-> "idle"]
  /\ invocation = [p \in P |-> None]
  /\ request = [p \in P |-> None]
  /\ sent = [p \in P |-> None]
  /\ response = [p \in P |-> NoResponse]
  /\ result = [p \in P |-> None]
  /\ calls = [p \in P |-> 0]
  /\ reads = [p \in P |-> 0]
  /\ parsed = [p \in P |-> 0]
  /\ keysAtDelegation = <<>>
  /\ call = None
  /\ heap = <<>>
  /\ returned = None

Init == InitFor({1})

registryVars == <<entrypointKeys, appEntrypoints, registering, keysAtDelegation>>
callVars == <<call, heap, returned>>
invocationVars == <<pc, invocation, request, sent, response, result, calls, reads, parsed>>

(* ------------------------------- actions ------------------------------ *)
\* registerEntrypoint keeping a key once: a key already recorded is not pushed
registerEntrypoint_Dedup(definition) ==
  /\ entrypointKeys' =
       IF \E i \in 1..Len(entrypointKeys) : entrypointKeys[i] = definition.key
       THEN entrypointKeys
       ELSE Append(entrypointKeys, definition.key)
  /\ keysAtDelegation' = entrypointKeys'
  /\ appEntrypoints' = Append(appEntrypoints, definition.key)

\* registerEntrypoint(definition): push the key, then addEntrypoint(definition)
registerEntrypoint(definition) ==
  /\ entrypointKeys' = Append(entrypointKeys, definition.key)
  /\ keysAtDelegation' = entrypointKeys'
  /\ appEntrypoints' = Append(appEntrypoints, definition.key)

\* module evaluation: the next registerEntrypoint({ ... }) statement
Register ==
  /\ registering <= Len(EntrypointDefinitions)
  /\ registerEntrypoint(EntrypointDefinitions[registering])
  /\ registering' = registering + 1
  /\ UNCHANGED <<invocationVars, callVars>>

Started == registering > Len(EntrypointDefinitions)

\* the host invokes a registered entrypoint with an input that passed its
\* schema; the handler runs up to its await of fetch
Invoke(p) ==
  /\ Started
  /\ pc[p] = "idle"
  /\ \E key \in {appEntrypoints[i] : i \in 1..Len(appEntrypoints)} :
       \E input \in ValidInputs(key) :
         \E req \in {HandlerRequest(key, input)} :
           /\ invocation' = [invocation EXCEPT ![p] = [key |-> key, input |-> input]]
           /\ request' = [request EXCEPT ![p] = req]
           /\ sent' = [sent EXCEPT ![p] = FetchArguments(req.url, req.init)]
  /\ calls' = [calls EXCEPT ![p] = @ + 1]
  /\ pc' = [pc EXCEPT ![p] = "fetch"]
  /\ UNCHANGED <<registryVars, callVars, response, result, reads, parsed>>

\* FetchRejects with a retry: a rejected fetch is attempted once more
FetchRejects_Retry(p) ==
  /\ pc[p] = "fetch"
  /\ \E error \in Rejections :
       IF calls[p] < 2
       THEN /\ calls' = [calls EXCEPT ![p] = @ + 1]
            /\ UNCHANGED <<pc, result>>
       ELSE /\ result' = [result EXCEPT ![p] = NetworkFailure(request[p].label, error)]
            /\ pc' = [pc EXCEPT ![p] = "done"]
            /\ UNCHANGED calls
  /\ UNCHANGED <<registryVars, callVars, invocation, request, sent, response, reads, parsed>>

\* fetch rejects: the catch block throws, and the handler with it
FetchRejects(p) ==
  /\ pc[p] = "fetch"
  /\ \E error \in Rejections :
       result' = [result EXCEPT ![p] = NetworkFailure(request[p].label, error)]
  /\ pc' = [pc EXCEPT ![p] = "done"]
  /\ UNCHANGED <<registryVars, callVars, invocation, request, sent, response, calls, reads, parsed>>

\* fetch resolves with a response; performTimeApiRequest awaits response.text()
FetchResolves(p) ==
  /\ pc[p] = "fetch"
  /\ \E status \in Statuses :
       response' = [response EXCEPT ![p] = [status |-> status, bodyText |-> None]]
  /\ reads' = [reads EXCEPT ![p] = @ + 1]
  /\ pc' = [pc EXCEPT ![p] = "text"]
  /\ UNCHANGED <<registryVars, callVars, invocation, request, sent, result, calls, parsed>>

\* response.text() resolves; the rest of the handler runs without suspension
TextResolves(p) ==
  /\ pc[p] = "text"
  /\ \E bodyText \in Bodies :
       \E h \in {HandlerResult(invocation[p].key, invocation[p].input, request[p],
                               response[p].status, bodyText)} :
         /\ response' = [response EXCEPT ![p].bodyText = Str(bodyText)]
         /\ result' = [result EXCEPT ![p] = h.result]
         /\ parsed' = [parsed EXCEPT ![p] = @ + h.parsed]
  /\ pc' = [pc EXCEPT ![p] = "done"]
  /\ UNCHANGED <<registryVars, callVars, invocation, request, sent, calls, reads>>

\* response.text() rejects: nothing in performTimeApiRequest, requestTimeApiJson
\* or the handler catches it, so the handler rejects with that very value
TextRejects(p) ==
  /\ pc[p] = "text"
  /\ \E error \in Rejections :
       /\ response' = [response EXCEPT ![p].bodyText = [kind |-> "unreadable"]]
       /\ result' = [result EXCEPT ![p] = Throw("BodyReadError", ReasonOf(error))]
  /\ pc' = [pc EXCEPT ![p] = "done"]
  /\ UNCHANGED <<registryVars, callVars, invocation, request, sent, calls, reads, parsed>>

\* the host takes the result; the next invocation starts afresh
Complete(p) ==
  /\ pc[p] = "done"
  /\ pc' = [pc EXCEPT ![p] = "idle"]
  /\ invocation' = [invocation EXCEPT ![p] = None]
  /\ request' = [request EXCEPT ![p] = None]
  /\ sent' = [sent EXCEPT ![p] = None]
  /\ response' = [response EXCEPT ![p] = NoResponse]
  /\ result' = [result EXCEPT ![p] = None]
  /\ calls' = [calls EXCEPT ![p] = 0]
  /\ reads' = [reads EXCEPT ![p] = 0]
  /\ parsed' = [parsed EXCEPT ![p] = 0]
  /\ UNCHANGED <<registryVars, callVars>>

Next ==
  \/ Register
  \/ \E p \in Procs : Invoke(p)
  \/ \E p \in Procs : FetchRejects(p)
  \/ \E p \in Procs : FetchResolves(p)
  \/ \E p \in Procs : TextResolves(p)
  \/ \E p \in Procs : TextRejects(p)
  \/ \E p \in Procs : Complete(p)

Spec == Init /\ [][Next]_vars

(* ------------------------------- properties --------------------------- *)
Done(p) == pc[p] = "done"
\* the invocation got a response and read its body as text
BodyRead(p) == Done(p) /\ response[p].bodyText.kind = "string"
\* the entrypoints whose handler calls requestTimeApiJson
UsesJson(p) == invocation[p].key # K_health_check
\* the message starts with "[label]"
CarriesLabel(message, label) ==
  StartsWith(message, 1, <<"[">> \o label \o <<"]">>)
ClassifiedFailures ==
  {"NetworkFailure", "HttpStatusFailure", "EmptyBodyFailure", "JsonParseFailure"}
\* the preview the 500-character rule asks for
RulePreview(b) ==
  IF Len(b) <= 500 THEN b ELSE [i \in 1..501 |-> IF i <= 500 THEN b[i] ELSE Ellipsis]
StatusMessage(label, status, b) ==
  <<"[">> \o label \o <<"]", " ", "t", "i", "m", "e", "a", "p", "i", ".", "i", "o", " ", "r", "e", "s", "p", "o", "n", "d", "e", "d", " ", "w", "i", "t", "h", " ">> \o NumToStr(status) \o <<":", " ">>
  \o (IF b = <<>> THEN <<"<", "e", "m", "p", "t", "y", " ", "r", "e", "s", "p", "o", "n", "s", "e", " ", "b", "o", "d", "y", ">">> ELSE RulePreview(b))
OnlyWhiteSpace(b) == \A i \in 1..Len(b) : b[i] \in {" ", "\n", "\t", "\r"}
\* the payload requestTimeApiJson decoded for an invocation that returned
Payload(p) == JSONParse(Trim(response[p].bodyText.val)).val

\* C1: an invocation whose call was answered (or failed in transport) ends in
\* an output record or in one of the four classified failures carrying the
\* label of its entrypoint.
C1_OutputOrClassifiedFailure ==
  \A p \in Procs :
    Done(p) /\ response[p].bodyText.kind # "unreadable" =>
      \/ result[p].kind = "return"
      \/ /\ result[p].kind = "throw"
         /\ result[p].failure \in ClassifiedFailures
         /\ CarriesLabel(result[p].message, invocation[p].key)

\* C2: in requestTimeApiJson a response that is not ok ends in an
\* HttpStatusFailure with the label, the status and the body preview, JSON.parse
\* never having run; a value is decoded and an output returned only for ok
\* responses.
C2_StatusBeforeDecoding ==
  \A p \in Procs :
    BodyRead(p) /\ UsesJson(p) =>
      /\ ~ResponseOk(response[p].status) =>
           /\ result[p].kind = "throw"
           /\ result[p].failure = "HttpStatusFailure"
           /\ result[p].message =
                StatusMessage(invocation[p].key, response[p].status, response[p].bodyText.val)
           /\ parsed[p] = 0
      /\ parsed[p] > 0 \/ result[p].kind = "return" => ResponseOk(response[p].status)

C2_Witness ==
  \E p \in Procs :
    /\ BodyRead(p) /\ UsesJson(p)
    /\ response[p].status = 500
    /\ JSONParse(response[p].bodyText.val).ok
    /\ result[p].kind = "throw" /\ result[p].failure = "HttpStatusFailure"

\* C3: for an ok response, a body that is empty or only whitespace ends in an
\* EmptyBodyFailure and never a JsonParseFailure; a body that is not, and does
\* not parse, ends in a JsonParseFailure whose message holds the parser's
\* reason and the preview of the untrimmed body; the two messages differ.
C3_EmptyIsNotInvalid ==
  \A p \in Procs :
    BodyRead(p) /\ UsesJson(p) /\ ResponseOk(response[p].status) =>
      LET b == response[p].bodyText.val
          label == invocation[p].key
          emptyMessage == <<"[">> \o label \o <<"]", " ", "e", "x", "p", "e", "c", "t", "e", "d", " ", "J", "S", "O", "N", " ", "b", "o", "d", "y", " ", "b", "u", "t", " ", "r", "e", "c", "e", "i", "v", "e", "d", " ", "a", "n", " ", "e", "m", "p", "t", "y", " ", "r", "e", "s", "p", "o", "n", "s", "e">>
      IN  /\ OnlyWhiteSpace(b) =>
               /\ result[p].kind = "throw"
               /\ result[p].failure = "EmptyBodyFailure"
               /\ result[p].message = emptyMessage
          /\ ~OnlyWhiteSpace(b) /\ ~JSONParse(Trim(b)).ok =>
               /\ result[p].kind = "throw"
               /\ result[p].failure = "JsonParseFailure"
               /\ result[p].message =
                    <<"[">> \o label \o <<"]", " ", "f", "a", "i", "l", "e", "d", " ", "t", "o", " ", "p", "a", "r", "s", "e", " ", "J", "S", "O", "N", ":", " ">> \o JSONParse(Trim(b)).reason
                    \o <<".", " ", "R", "e", "s", "p", "o", "n", "s", "e", " ", "b", "o", "d", "y", ":", " ">> \o RulePreview(b)
               /\ result[p].message # emptyMessage
          /\ result[p].kind = "throw" =>
               /\ result[p].failure = "EmptyBodyFailure" <=> OnlyWhiteSpace(b)
               /\ result[p].failure = "JsonParseFailure" =>
                    ~OnlyWhiteSpace(b) /\ ~JSONParse(Trim(b)).ok

C3_Witness ==
  \E p \in Procs :
    /\ BodyRead(p) /\ UsesJson(p) /\ ResponseOk(response[p].status)
    /\ result[p].kind = "throw" /\ result[p].failure = "JsonParseFailure"
    /\ Len(response[p].bodyText.val) > 500
    /\ response[p].bodyText.val[1] = " "

\* C4: once a response is obtained, a failure to read its body counts as an
\* empty body: the invocation ends as it does for the body "".
C4_BodyReadFailureIsEmptyBody ==
  \A p \in Procs :
    Done(p) /\ response[p].bodyText.kind = "unreadable" =>
      result[p] = HandlerResult(invocation[p].key, invocation[p].input, request[p],
                                response[p].status, <<>>).result

\* C5: every output record has a source field that is the string form of the
\* URL handed to fetch, also when the decoded payload has a source of its own.
C5_SourceIsInvokedUrl ==
  \A p \in Procs :
    Done(p) /\ result[p].kind = "return" =>
      /\ HasOwn(result[p].output, S_source)
      /\ OwnValue(result[p].output, S_source) = Str(sent[p].url)

C5_Witness ==
  \E p \in Procs :
    /\ Done(p) /\ result[p].kind = "return"
    /\ invocation[p].key = K_timezone_info
    /\ Payload(p).kind = "object" /\ HasOwn(Payload(p), S_source)

\* C6: an invocation calls fetch at most once and reads at most one body; a
\* call that fails before a response ends the invocation in a NetworkFailure
\* with the label and the reason; an invocation that has failed is over.
C6_OneCallNoRetry ==
  \A p \in Procs :
    /\ calls[p] <= 1
    /\ reads[p] <= 1
    /\ reads[p] <= calls[p]
    /\ result[p].kind = "throw" => Done(p)
    /\ Done(p) /\ response[p].bodyText.kind = "none" =>
         /\ calls[p] = 1 /\ reads[p] = 0
         /\ result[p].kind = "throw"
         /\ result[p].failure = "NetworkFailure"
         /\ \E e \in Rejections :
              result[p].message =
                <<"[">> \o invocation[p].key \o <<"]", " ", "n", "e", "t", "w", "o", "r", "k", " ", "r", "e", "q", "u", "e", "s", "t", " ", "f", "a", "i", "l", "e", "d", ":", " ">>
                \o (IF e.kind = "error" THEN e.message ELSE e.val)

C6_Witness ==
  \E p \in Procs :
    /\ Done(p) /\ response[p].bodyText.kind = "none"
    /\ result[p].failure = "NetworkFailure"
    /\ calls[p] = 1

\* C7: truncateBodyPreview returns a body of at most 500 characters unchanged
\* and the first 500 characters of a longer one followed by one ellipsis; the
\* preview of a response that is not ok is that truncation, or the marker
\* "<empty response body>" for an empty body.
C7_BodyPreviewRule ==
  \A p \in Procs :
    BodyRead(p) =>
      LET b == response[p].bodyText.val
          t == truncateBodyPreview(b)
      IN  /\ Len(b) <= 500 => t = b
          /\ Len(b) > 500 =>
               /\ Len(t) = 501
               /\ \A i \in 1..500 : t[i] = b[i]
               /\ t[501] = Ellipsis
          /\ ~ResponseOk(response[p].status) =>
               /\ result[p].kind = "throw"
               /\ result[p].message =
                    StatusMessage(invocation[p].key, response[p].status, b)

C7_Witness ==
  \E p \in Procs :
    /\ BodyRead(p)
    /\ ~ResponseOk(response[p].status)
    /\ Len(response[p].bodyText.val) = 501
    /\ Len(result[p].message) > 501
    /\ result[p].message[Len(result[p].message)] = Ellipsis

\* C8: the day-of-year handler returns { dayOfYear: payload } for a payload
\* that is a number, { dayOfYear: payload.dayOfYear } for an object whose
\* dayOfYear is a number, and { data: payload } for every other payload, each
\* with the source.
C8_DayOfYearLadder ==
  \A p \in Procs :
    Done(p) /\ invocation[p].key = K_day_of_year /\ result[p].kind = "return" =>
      LET payload == Payload(p)
          source == <<S_source, Str(sent[p].url)>>
          isNumber == payload.kind = "number"
          hasNumber == /\ payload.kind = "object"
                       /\ HasOwn(payload, S_dayOfYear)
                       /\ OwnValue(payload, S_dayOfYear).kind = "number"
      IN  /\ isNumber => result[p].output = Obj(<<<<S_dayOfYear, payload>>, source>>)
          /\ hasNumber =>
               result[p].output = Obj(<<<<S_dayOfYear, OwnValue(payload, S_dayOfYear)>>, source>>)
          /\ ~isNumber /\ ~hasNumber =>
               result[p].output = Obj(<<<<S_data, payload>>, source>>)

C8_Witness ==
  \E p \in Procs :
    /\ Done(p) /\ invocation[p].key = K_day_of_year /\ result[p].kind = "return"
    /\ Payload(p).kind = "object"
    /\ result[p].output.val[1] = <<S_dayOfYear, Num(7)>>

\* what createTimeResponse copies from the payload to the top level, and into
\* components
CopiedToTop == <<S_dateTime, S_date, S_time, S_dayOfWeek, S_dstActive>>
CopiedToComponents ==
  <<S_year, S_month, S_day, S_hour, S_minute, S_seconds, S_milliSeconds>>
\* the lookup URL of current-time for the timeZone of the input
CurrentTimeUrl(timeZone) ==
  <<"h", "t", "t", "p", "s", ":", "/", "/", "t", "i", "m", "e", "a", "p", "i", ".", "i", "o", "/", "a", "p", "i", "/", "t", "i", "m", "e", "/", "c", "u", "r", "r", "e", "n", "t", "/", "z", "o", "n", "e", "?", "t", "i", "m", "e", "Z", "o", "n", "e", "=">>
  \o (IF timeZone = <<"E", "u", "r", "o", "p", "e", "/", "O", "s", "l", "o">> THEN <<"E", "u", "r", "o", "p", "e", "%", "2", "F", "O", "s", "l", "o">> ELSE timeZone)
\* the parts of C9 that hold as claimed
CurrentTimeCopies(p) ==
  LET payload == Payload(p)
      output == result[p].output
  IN  /\ \A i \in 1..Len(CopiedToTop) :
           /\ HasOwn(output, CopiedToTop[i])
           /\ OwnValue(output, CopiedToTop[i]) = GetProp(payload, CopiedToTop[i])
      /\ HasOwn(output, S_components)
      /\ OwnValue(output, S_components).kind = "object"
      /\ \A i \in 1..Len(OwnValue(output, S_components).val) :
           LET field == OwnValue(output, S_components).val[i]
           IN  /\ \E j \in 1..Len(CopiedToComponents) : field[1] = CopiedToComponents[j]
               /\ field[2] = GetProp(payload, field[1])
      /\ HasOwn(output, S_source)
      /\ OwnValue(output, S_source) = Str(sent[p].url)
      /\ sent[p].url = CurrentTimeUrl(invocation[p].input.timeZone.val)
      /\ HasOwn(output, S_timeZone)
CurrentTimeReturned(p) ==
  Done(p) /\ invocation[p].key = K_current_time /\ result[p].kind = "return"

\* C9 as claimed: the output of current-time copies dateTime, date, time,
\* dayOfWeek and dstActive, nests six fields of the payload in components, has
\* the lookup URL as source, and has the payload's timeZone, or the caller's
\* when the payload omits it.
C9_AsClaimed ==
  \A p \in Procs :
    CurrentTimeReturned(p) =>
      /\ CurrentTimeCopies(p)
      /\ Len(OwnValue(result[p].output, S_components).val) = 6
      /\ OwnValue(result[p].output, S_timeZone) =
           IF HasProperty(Payload(p), S_timeZone) THEN GetProp(Payload(p), S_timeZone)
           ELSE invocation[p].input.timeZone

\* C9 amended: components nests the seven fields year, month, day, hour,
\* minute, seconds and milliSeconds, and timeZone is the caller's when the
\* payload omits it or gives null.
C9_CurrentTimeOutput ==
  \A p \in Procs :
    CurrentTimeReturned(p) =>
      /\ CurrentTimeCopies(p)
      /\ Len(OwnValue(result[p].output, S_components).val) = 7
      /\ \A j \in 1..7 : HasOwn(OwnValue(result[p].output, S_components), CopiedToComponents[j])
      /\ OwnValue(result[p].output, S_timeZone) =
           IF /\ HasProperty(Payload(p), S_timeZone)
              /\ GetProp(Payload(p), S_timeZone).kind # "null"
           THEN GetProp(Payload(p), S_timeZone)
           ELSE invocation[p].input.timeZone

C9_Witness ==
  \E p \in Procs :
    /\ CurrentTimeReturned(p)
    /\ Payload(p).kind = "object"
    /\ HasOwn(Payload(p), S_year) /\ ~HasOwn(Payload(p), S_timeZone)
    /\ OwnValue(OwnValue(result[p].output, S_components), S_milliSeconds) = Num(0)
    /\ OwnValue(result[p].output, S_timeZone) = invocation[p].input.timeZone

\* the handlers that take a dstAmbiguity
TakesDstAmbiguity(p) ==
  /\ pc[p] # "idle"
  /\ invocation[p].key \in {K_convert_timezone, K_increment_custom_time, K_decrement_custom_time}

\* C10: the JSON body that convert-timezone, increment-custom-time and
\* decrement-custom-time send has a dstAmbiguity field exactly when the caller
\* gave a non-empty one, with the trimmed value; absent or "" it is left out;
\* the request is a POST with Content-Type application/json.
C10_DstAmbiguityOnlyWhenGiven ==
  \A p \in Procs :
    TakesDstAmbiguity(p) =>
      LET given == invocation[p].input.dstAmbiguity
          body == JSONParse(sent[p].body.val)
          nonEmpty == given.kind = "string" /\ given.val # <<>>
      IN  /\ sent[p].method = <<"P", "O", "S", "T">>
          /\ HeadersGet(sent[p].headers, <<"c", "o", "n", "t", "e", "n", "t", "-", "t", "y", "p", "e">>) = <<"a", "p", "p", "l", "i", "c", "a", "t", "i", "o", "n", "/", "j", "s", "o", "n">>
          /\ sent[p].body.kind = "string"
          /\ body.ok /\ body.val.kind = "object"
          /\ HasOwn(body.val, S_dstAmbiguity) <=> nonEmpty
          /\ nonEmpty =>
               /\ OwnValue(body.val, S_dstAmbiguity).kind = "string"
               /\ OwnValue(body.val, S_dstAmbiguity).val = Trim(given.val)
               /\ ~OnlyWhiteSpace(<<Head(Trim(given.val))>>)

C10_Witness ==
  \E p \in Procs :
    /\ TakesDstAmbiguity(p)
    /\ invocation[p].key = K_increment_custom_time
    /\ invocation[p].input.dstAmbiguity = Str(S_earlier)
    /\ HasOwn(JSONParse(sent[p].body.val).val, S_dstAmbiguity)

(* ------------------------- calls of the helpers ------------------------ *)
\* the length of the longest [key, value] sequence handed to mergeHeaders
MaxPairs == 2

\* Headers objects mergeHeaders is given as base: the one performTimeApiRequest
\* seeds, an empty one, and one with a second header
BaseHeaders ==
  { <<<<H_accept, H_applicationJson>>>>,
    <<>>,
    <<<<H_accept, H_applicationJson>>, <<<<"x">>, <<"o", "l", "d">>>>>> }

\* extra as a Headers object: its header list
ExtraHeaders ==
  { <<>>,
    <<<<H_accept, <<"t", "e", "x", "t", "/", "p", "l", "a", "i", "n">>>>>>,
    <<<<<<"x">>, <<"n", "e", "w">>>>>>,
    <<<<H_accept, <<"t", "e", "x", "t", "/", "p", "l", "a", "i", "n">>>>, <<<<"x">>, <<"n", "e", "w">>>>>> }

\* extra as an Array<[string, string]>
HeaderPairs == {<<k, v>> : k \in {<<"X">>, <<"x">>, <<"A", "c", "c", "e", "p", "t">>}, v \in {<<"a">>, <<"b">>}}
ExtraPairs == UNION {[1..n -> HeaderPairs] : n \in 0..MaxPairs}

\* extra as a HeaderRecord: string | number | boolean | null | undefined | string[]
HeaderRecordValues ==
  { Undefined, Null, Str(<<"a">>), Str(<<>>), Num(0), Num(7), Bool(FALSE), Bool(TRUE),
    Arr(<<>>), Arr(<<Str(<<"a">>), Str(<<"b">>)>>) }
ExtraRecords ==
  {<<>>, <<<<H_contentType, Str(H_applicationJson)>>>>,
   <<<<<<"X">>, Str(<<"a">>)>>, <<<<"x">>, Null>>>>, <<<<<<"X">>, Str(<<"a">>)>>, <<<<"x">>, Str(<<"b">>)>>>>}
  \cup {<<<<<<"X">>, v>>, <<H_accept, w>>>> : v \in HeaderRecordValues, w \in HeaderRecordValues}

\* the extra argument of mergeHeaders, in its four forms
Extras ==
  {Undefined}
  \cup {[kind |-> "headers", val |-> h] : h \in ExtraHeaders}
  \cup {Arr(pairs) : pairs \in ExtraPairs}
  \cup {Obj(entries) : entries \in ExtraRecords}

\* a call mergeHeaders(base, extra): the Headers object base is mutated where
\* it lies and the reference to it is returned
CallMergeHeaders ==
  /\ call = None
  /\ \E base \in BaseHeaders :
       \E extra \in Extras :
         /\ call' = [fn |-> "mergeHeaders", base |-> "base", before |-> base, extra |-> extra]
         /\ heap' = [base |-> mergeHeaders(base, extra),
                     extra |-> IF extra.kind = "headers" THEN extra.val ELSE <<>>]
  /\ returned' = "base"
  /\ UNCHANGED <<registryVars, invocationVars>>

\* paths handed to buildTimeApiUrl: without a query string, as every handler
\* gives them, and with one
Paths ==
  { <<"/", "a", "p", "i", "/", "t", "i", "m", "e", "/", "c", "u", "r", "r", "e", "n", "t", "/", "z", "o", "n", "e">>,
    <<"/", "a", "p", "i", "/", "t", "i", "m", "e", "/", "c", "u", "r", "r", "e", "n", "t", "/", "z", "o", "n", "e", "?", "t", "i", "m", "e", "Z", "o", "n", "e", "=", "o", "l", "d">>,
    <<"/", "a", "p", "i", "/", "x", "?", "a", "=", "1", "&", "t", "i", "m", "e", "Z", "o", "n", "e", "=", "o", "l", "d", "&", "t", "i", "m", "e", "Z", "o", "n", "e", "=", "o", "l", "d", "e", "r">>,
    <<"/", "a", "p", "i", "/", "x", "?", "b", "=", "2">> }

\* query values: string | number | boolean | undefined
QueryValues ==
  { Undefined, Str(<<"U", "T", "C">>), Str(<<"E", "u", "r", "o", "p", "e", "/", "O", "s", "l", "o">>), Str(<<>>), Str(<<"u", "n", "d", "e", "f", "i", "n", "e", "d">>),
    Num(0), Num(7), Bool(FALSE), Bool(TRUE) }
Queries ==
  {Undefined, Obj(<<>>)}
  \cup {Obj(<<<<S_timeZone, v>>>>) : v \in QueryValues}
  \cup {Obj(<<<<S_timeZone, v>>, <<<<"a">>, w>>>>) : v \in QueryValues, w \in QueryValues}

\* a call buildTimeApiUrl(path, query)
CallBuildTimeApiUrl ==
  /\ call = None
  /\ \E path \in Paths :
       \E query \in Queries :
         /\ call' = [fn |-> "buildTimeApiUrl", path |-> path, query |-> query]
         /\ returned' = buildTimeApiUrl(path, query)
  /\ heap' = <<>>
  /\ UNCHANGED <<registryVars, invocationVars>>

CallsNext ==
  \/ CallMergeHeaders
  \/ CallBuildTimeApiUrl

\* one call of a helper with any arguments of its parameter types
Calls == Init /\ [][CallsNext]_vars

(* ------------------------------ C11 ----------------------------------- *)
\* the writes the three forms of extra stand for, in order: <<key, value set>>
RECURSIVE RecordWrites(_)
RecordWrites(entries) ==
  IF Len(entries) = 0 THEN <<>>
  ELSE (CASE Head(entries)[2].kind \in {"undefined", "null"} -> <<>>
          [] Head(entries)[2].kind = "array" ->
               <<<<Head(entries)[1], Join(Head(entries)[2].val, <<",", " ">>)>>>>
          [] OTHER -> <<<<Head(entries)[1], ToJsString(Head(entries)[2])>>>>)
       \o RecordWrites(Tail(entries))
WritesOf(extra) ==
  CASE extra.kind = "undefined" -> <<>>
    [] extra.kind \in {"headers", "array"} -> extra.val
    [] extra.kind = "object" -> RecordWrites(extra.val)
\* header names are compared without regard to case
Names(writes) == {ToLowerCase(writes[i][1]) : i \in 1..Len(writes)}
LastWrite(writes, name) ==
  writes[CHOOSE i \in 1..Len(writes) :
           /\ ToLowerCase(writes[i][1]) = name
           /\ \A j \in (i + 1)..Len(writes) : ToLowerCase(writes[j][1]) # name][2]
MergeHeadersCalled == call # None /\ call.fn = "mergeHeaders"
\* base overwritten key by key with writes, the last write of a key winning
Overwritten(before, writes, after) ==
  /\ \A i, j \in 1..Len(after) : after[i][1] = after[j][1] => i = j
  /\ Names(after) = Names(before) \cup Names(writes)
  /\ \A i \in 1..Len(after) :
       after[i][2] = IF after[i][1] \in Names(writes) THEN LastWrite(writes, after[i][1])
                     ELSE HeadersGet(before, after[i][1])

\* C11: mergeHeaders(base, extra) returns base itself, mutated to base
\* overwritten key by key with the entries of extra, the last write winning: a
\* Headers or a sequence of pairs is applied entry by entry in order; of a
\* record the null and absent values are skipped, an array is set joined with
\* ", " and any other value in its string form; without extra, base is
\* unchanged; keys extra does not name keep their value.
C11_MergeOverwritesKeyByKey ==
  MergeHeadersCalled =>
    /\ returned = call.base
    /\ Overwritten(call.before, WritesOf(call.extra), heap[returned])
    /\ call.extra.kind = "undefined" => heap[returned] = call.before
    /\ \A i \in 1..Len(call.before) :
         call.before[i][1] \notin Names(WritesOf(call.extra)) =>
           HeadersGet(heap[returned], call.before[i][1]) = call.before[i][2]

\* the record { X: ["a", "b"], accept: null } over the seeded accept header
C11_Witness ==
  /\ MergeHeadersCalled
  /\ call.before = <<<<H_accept, H_applicationJson>>>>
  /\ call.extra = Obj(<<<<<<"X">>, Arr(<<Str(<<"a">>), Str(<<"b">>)>>)>>, <<H_accept, Null>>>>)
  /\ heap[returned] = <<<<H_accept, H_applicationJson>>, <<<<"x">>, <<"a", ",", " ", "b">>>>>>

(* ------------------------------ C12 ----------------------------------- *)
\* the character a form-urlencoded escape stands for
FormDecodeEscape(hex) ==
  CASE hex = <<"2", "F">> -> "/"
    [] hex = <<"3", "A">> -> ":"
    [] hex = <<"2", "B">> -> "+"
    [] hex = <<"3", "D">> -> "="
    [] hex = <<"2", "6">> -> "&"
    [] hex = <<"3", "F">> -> "?"
    [] hex = <<"2", "C">> -> ","
\* a name or value of a query string, decoded
RECURSIVE FormDecode(_)
FormDecode(s) ==
  IF Len(s) = 0 THEN <<>>
  ELSE IF Head(s) = "+" THEN <<" ">> \o FormDecode(Tail(s))
  ELSE IF Head(s) = "%" THEN <<FormDecodeEscape(SubSeq(s, 2, 3))>> \o FormDecode(SubSeq(s, 4, Len(s)))
  ELSE <<Head(s)>> \o FormDecode(Tail(s))
\* the <<name, value>> pairs read back from the query string of a URL string
QueryStringOf(href) ==
  IF IndexOf(href, "?", 1) = 0 THEN <<>>
  ELSE SubSeq(href, IndexOf(href, "?", 1) + 1, Len(href))
DecodedPairs(pairs) == [i \in 1..Len(pairs) |-> <<FormDecode(pairs[i][1]), FormDecode(pairs[i][2])>>]
QueryOf(href) == DecodedPairs(ParseQuery(QueryStringOf(href)))
\* where a key occurs in a sequence of pairs, and with which values
Occurrences(pairs, key) == {i \in 1..Len(pairs) : pairs[i][1] = key}
ValuesAt(pairs, key) == {pairs[i][2] : i \in Occurrences(pairs, key)}
Keys(pairs) == {pairs[i][1] : i \in 1..Len(pairs)}
BuildTimeApiUrlCalled == call # None /\ call.fn = "buildTimeApiUrl"
\* the entries of the query mapping of the call
Mapping == IF call.query.kind = "undefined" THEN <<>> ELSE call.query.val
\* the keys of the mapping whose value is not absent
Present(mapping) == {mapping[i][1] : i \in {j \in 1..Len(mapping) : mapping[j][2].kind # "undefined"}}

\* the query string of the URL built from path and mapping, against the query
\* string of path
QueryAsClaimed(given, mapping, built) ==
  /\ Keys(built) = Keys(given) \cup Present(mapping)
  /\ \A i \in 1..Len(mapping) :
       mapping[i][2].kind # "undefined" =>
         /\ Cardinality(Occurrences(built, mapping[i][1])) = 1
         /\ ValuesAt(built, mapping[i][1]) = {ToJsString(mapping[i][2])}
  /\ \A key \in Keys(given) \cup Keys(mapping) :
       key \notin Present(mapping) =>
         /\ Cardinality(Occurrences(built, key)) = Cardinality(Occurrences(given, key))
         /\ ValuesAt(built, key) = ValuesAt(given, key)

MaxExtraCalls == 1

\* the definitions of such further calls: keys the module registers as well
ExtraDefinitions == {EntrypointDefinitions[Len(EntrypointDefinitions)]}

\* module evaluation: a further registerEntrypoint({ ... }) statement, between
\* those of the module
RegisterAgain ==
  /\ registering <= Len(EntrypointDefinitions)
  /\ Len(entrypointKeys) - (registering - 1) < MaxExtraCalls
  /\ \E definition \in ExtraDefinitions : registerEntrypoint(definition)
  /\ UNCHANGED <<registering, invocationVars, callVars>>

\* the invocations followed here: health-check, answered 200 with an empty body
\* or not at all
Followed(p) ==
  /\ pc'[p] # "idle" => invocation'[p].key = K_health_check
  /\ pc'[p] = "text" => response'[p].status = 200
  /\ response'[p].bodyText.kind = "string" => response'[p].bodyText.val = <<>>

RegistryNext ==
  \/ Register
  \/ RegisterAgain
  \/ \E p \in Procs : Invoke(p) /\ Followed(p)
  \/ \E p \in Procs : FetchRejects(p)
  \/ \E p \in Procs : FetchResolves(p) /\ Followed(p)
  \/ \E p \in Procs : TextResolves(p) /\ Followed(p)
  \/ \E p \in Procs : TextRejects(p)
  \/ \E p \in Procs : Complete(p)

\* a module that registers some keys twice, and two invocations at a time
Registry == InitFor({1, 2}) /\ [][RegistryNext]_vars

(* ------------------------------ C13 ----------------------------------- *)
\* entrypointKeys grew by one key at its end, or not at all
AppendedOrSame ==
  \/ entrypointKeys' = entrypointKeys
  \/ /\ Len(entrypointKeys') = Len(entrypointKeys) + 1
     /\ SubSeq(entrypointKeys', 1, Len(entrypointKeys)) = entrypointKeys
\* a registerEntrypoint call happened: addEntrypoint was called once more
Registered == Len(appEntrypoints') = Len(appEntrypoints) + 1
\* the key of the definition of that call
RegisteredKey == appEntrypoints'[Len(appEntrypoints')]

\* C13: the registry only grows at its end: after any registerEntrypoint calls
\* entrypointKeys is the keys of their definitions in call order, a key given
\* twice being there twice; each call has recorded its key when it hands the
\* definition to addEntrypoint; and once the registrations of startup are done
\* no step of any invocation, however two of them interleave, changes the list.
C13_RegistryAppendOnly ==
  /\ [](entrypointKeys = appEntrypoints /\ keysAtDelegation = entrypointKeys)
  /\ [][/\ AppendedOrSame
        /\ Registered => entrypointKeys' = Append(entrypointKeys, RegisteredKey)
        /\ ~Registered => entrypointKeys' = entrypointKeys
        /\ Started => entrypointKeys' = entrypointKeys]_vars

\* health-check registered twice, and two invocations under way at once
C13_Witness ==
  /\ Started
  /\ Cardinality({i \in 1..Len(entrypointKeys) : entrypointKeys[i] = K_health_check}) = 2
  /\ Len(entrypointKeys) = Len(EntrypointDefinitions) + 1
  /\ pc[1] = "text" /\ pc[2] = "done"
====
